---- MODULE Spec2Model ----
(***************************************************************************)
(* Vote ledger, vote aggregate and answer acceptance of the stack_it Q&A   *)
(* forum: the VoteButtons control (handleVote, handleAccept), the          *)
(* QuestionDetail page that hosts it (fetchQuestion, fetchAnswers,         *)
(* handleSubmitAnswer, handleAcceptAnswer) and the rows of the hosted      *)
(* database they read and write.                                           *)
(***************************************************************************)
EXTENDS Integers, FiniteSets, Sequences, TLC

VARIABLES
  questions,    \* table public.questions : id -> row
  answers,      \* table public.answers   : id -> row
  votes,        \* table public.votes     : set of rows
  authUser,     \* per browser session: the user of the supabase auth session
  pageUser,     \* QuestionDetail `user` state (set by checkAuth)
  pageId,       \* QuestionDetail route parameter `id`
  question,     \* QuestionDetail `question` state
  answersView,  \* QuestionDetail `answers` state : id -> fetched row
  loading,      \* QuestionDetail `loading` state
  fetchQ,       \* fetchQuestion request in flight (question id or Null)
  fetchA,       \* fetchAnswers request in flight (question id or Null)
  vb,           \* VoteButtons instances : control key -> component state
  voteOps,      \* handleVote invocations in progress : control key -> frame
  acceptOps,    \* handleAccept invocations whose rpc is in flight
  toast,        \* the notice the last step raised (toast({...})), if any
  response,     \* the answer of accept_answer the last step received, if any
  castLog,      \* history: the vote writes the backend has executed, in order
  question_tags,\* table public.question_tags : set of rows
  ask,          \* per browser session: the AskQuestion page and its handleSubmit
  profiles,     \* table public.profiles : user_id -> row
  profilePage,  \* per browser session: the Profile page and its handleSaveProfile
  tagsTable,    \* table public.tags     : set of rows
  tagInput      \* per browser session: selectedTags and the addTag invocations

vars == <<questions, answers, votes, authUser, pageUser, pageId, question,
          answersView, loading, fetchQ, fetchA, vb, voteOps, acceptOps,
          toast, response, castLog, question_tags, ask,
          profiles, profilePage, tagsTable, tagInput>>

dbVars == <<questions, answers, votes>>

askVars == <<question_tags, ask>>

Null == "null"

\* currentUserVote === null; `currentUserVote || 0` and `userVote || null`
\* make null and 0 the same value of the control.
NoVote == 0

\* toast({ title, description }) called by session s; NoToast when a step
\* raises no notice.
NoToast == [session |-> Null, text |-> ""]

Notice(s, text) == [session |-> s, text |-> text]

\* { data, error } of supabase.rpc('accept_answer', ...), with the call it
\* answers; NoResponse when a step receives none.
NoResponse ==
  [question_id_param |-> Null, answer_id_param |-> Null, requester |-> Null,
   data |-> FALSE, error |-> FALSE, received |-> FALSE]

Response(req, data, error) ==
  [question_id_param |-> req.question_id_param,
   answer_id_param |-> req.answer_id_param,
   requester |-> req.requester,
   data |-> data, error |-> error, received |-> TRUE]

\* The `question` state before a question has been fetched
noQuestion ==
  [id |-> Null, user_id |-> Null, vote_count |-> 0,
   accepted_answer_id |-> Null]

\* Bounds of the model
MaxCasts == 4
MaxInFlight == 1
MaxAcceptsInFlight == 2
MaxNewAnswers == 2
MaxViews == 1

\* Page loads in the specification of the view counter
MaxLoads == 3

\* Questions posted through AskQuestion
MaxQuestions == 2

\* Rows inserted into tags
MaxNewTags == 2

\* addTag invocations of one TagInput in progress at a time
MaxAddsInFlight == 2

\* The users, questions and answers of the demo seed migration (the columns
\* the page logic reads or the backend maintains)
Users == {"u1", "u2", "u3"}

\* Variant: the seed's UPDATE marks answer f, an answer of question qb, as
\* the accepted answer of question qa.
SeedQuestions_foreignAccepted ==
  [q \in {"qa", "qb", "qc"} |->
     [user_id |-> CASE q = "qa" -> "u1" [] q = "qb" -> "u2" [] q = "qc" -> "u3",
      vote_count |-> CASE q = "qa" -> 5 [] q = "qb" -> 8 [] q = "qc" -> 12,
      view_count |-> CASE q = "qa" -> 42 [] q = "qb" -> 67 [] q = "qc" -> 89,
      answer_count |-> CASE q = "qa" -> 2 [] q = "qb" -> 1 [] q = "qc" -> 3,
      accepted_answer_id |->
        CASE q = "qa" -> "f" [] q = "qb" -> "f" [] q = "qc" -> Null]]

SeedQuestions ==
  [q \in {"qa", "qb", "qc"} |->
     [user_id |-> CASE q = "qa" -> "u1" [] q = "qb" -> "u2" [] q = "qc" -> "u3",
      vote_count |-> CASE q = "qa" -> 5 [] q = "qb" -> 8 [] q = "qc" -> 12,
      view_count |-> CASE q = "qa" -> 42 [] q = "qb" -> 67 [] q = "qc" -> 89,
      answer_count |-> CASE q = "qa" -> 2 [] q = "qb" -> 1 [] q = "qc" -> 3,
      accepted_answer_id |->
        CASE q = "qa" -> "d" [] q = "qb" -> "f" [] q = "qc" -> Null]]

\* Variant: the seed inserts both answers of question qa with
\* is_accepted = true.
SeedAnswers_twoAccepted ==
  [a \in {"d", "e", "f"} |->
     [question_id |-> CASE a = "d" -> "qa" [] a = "e" -> "qa" [] a = "f" -> "qb",
      vote_count |-> CASE a = "d" -> 3 [] a = "e" -> 2 [] a = "f" -> 6,
      is_accepted |-> TRUE]]

SeedAnswers ==
  [a \in {"d", "e", "f"} |->
     [question_id |-> CASE a = "d" -> "qa" [] a = "e" -> "qa" [] a = "f" -> "qb",
      vote_count |-> CASE a = "d" -> 3 [] a = "e" -> 2 [] a = "f" -> 6,
      is_accepted |-> CASE a = "d" -> TRUE [] a = "e" -> FALSE [] a = "f" -> TRUE]]

SeedViews == 42 + 67 + 89

SeedQuestionTags ==
  {[question_id |-> "qa", tag_id |-> "css"],
   [question_id |-> "qb", tag_id |-> "react"],
   [question_id |-> "qc", tag_id |-> "javascript"]}

\* The AskQuestion page of a session: not mounted, or mounted with no
\* handleSubmit in progress (loading = false)
AskClosed ==
  [pc |-> "closed", user |-> Null, title |-> <<>>, content |-> <<>>,
   tags |-> {}, questionId |-> Null, pending |-> {}]

AskIdle == [AskClosed EXCEPT !.pc = "idle"]

SeedProfiles ==
  [u \in {"u1", "u2", "u3"} |->
     [username |-> CASE u = "u1" -> "john_dev"
                     [] u = "u2" -> "sarah_coder"
                     [] u = "u3" -> "mike_js",
      display_name |-> CASE u = "u1" -> "John Developer"
                         [] u = "u2" -> "Sarah Coder"
                         [] u = "u3" -> "Mike JavaScript",
      bio |-> CASE u = "u1" -> "Full-stack developer with 5 years experience"
                [] u = "u2" -> "Frontend specialist, loves React and CSS"
                [] u = "u3" -> "JavaScript enthusiast, Node.js expert",
      reputation |-> CASE u = "u1" -> 150 [] u = "u2" -> 120 [] u = "u3" -> 200]]

\* The `profile` state before a profile has been fetched
noProfile ==
  [username |-> Null, display_name |-> Null, bio |-> Null, reputation |-> 0]

\* No update of handleSaveProfile is in flight
noSave == [user_id |-> Null, display_name |-> Null, bio |-> Null]

\* The Profile page of a session: not mounted
ProfileClosed ==
  [pc |-> "closed", user |-> Null, profile |-> noProfile, editing |-> FALSE,
   request |-> noSave]

\* The tags the demo questions are linked with; a name is its characters
SeedTags ==
  {[id |-> "css", name |-> <<"C", "S", "S">>],
   [id |-> "react", name |-> <<"R", "e", "a", "c", "t">>],
   [id |-> "javascript",
    name |-> <<"J", "a", "v", "a", "S", "c", "r", "i", "p", "t">>]}

\* The Profile page and the TagInput play no part (no tag selected, no
\* addTag in progress): the tables are the seed's.
OtherPagesClosed(S) ==
  /\ profiles = SeedProfiles
  /\ profilePage = [s \in S |-> ProfileClosed]
  /\ tagsTable = SeedTags
  /\ tagInput = [s \in S |-> [selectedTags |-> <<>>, ops |-> <<>>]]

\* The questions the session of the acceptance specification opens, and the
\* users it signs in as: the authors of qa and qc, each a non-author of the
\* other's question
VisitedQuestions == {"qa", "qc"}

AcceptUsers == {"u1", "u3"}

\* The key of the question's VoteButtons instance; an answer's instance is
\* keyed by the answer id (key={answer.id}).
QCtl == "Q"

\* The browser sessions of the voting specification and of the two
\* one-visitor specifications
VoteSessions == {"s1", "s2"}

PageSessions == {"s1"}

Sessions == DOMAIN authUser

RECURSIVE SumVotes(_)
SumVotes(rows) ==
  IF rows = {} THEN 0
  ELSE LET r == CHOOSE x \in rows : TRUE
       IN  r.vote_type + SumVotes(rows \ {r})

Drop(f, k) == [x \in DOMAIN f \ {k} |-> f[x]]

Put(f, k, v) == [x \in DOMAIN f \cup {k} |-> IF x = k THEN v ELSE f[x]]

(***************************************************************************)
(* Backend: the votes table and the derived vote_count columns             *)
(***************************************************************************)

\* voteData of handleVote: the spread chooses question_id whenever the
\* questionId prop is set, and answer_id only otherwise.
voteData(user, questionId, answerId, voteType) ==
  [user_id     |-> user,
   vote_type   |-> voteType,
   question_id |-> IF questionId # Null THEN questionId ELSE Null,
   answer_id   |-> IF questionId # Null THEN Null ELSE answerId]

\* questionId ? 'question_id' : 'answer_id'
targetColumn(questionId) ==
  IF questionId # Null THEN "question_id" ELSE "answer_id"

\* questionId || answerId
targetValue(questionId, answerId) ==
  IF questionId # Null THEN questionId ELSE answerId

\* Variant: a plain insert, no conflict target
upsertVote_insert(rows, row, col) == rows \cup {row}

\* .upsert(voteData, { onConflict: 'user_id,' + column })
upsertVote(rows, row, col) ==
  {r \in rows : ~(r.user_id = row.user_id /\ r[col] = row[col])} \cup {row}

\* Variant: the delete without .eq('user_id', user.id)
deleteVote_anyUser(rows, user, col, val) == {r \in rows : r[col] # val}

\* .delete().eq('user_id', user.id).eq(column, value)
deleteVote(rows, user, col, val) ==
  {r \in rows : ~(r.user_id = user /\ r[col] = val)}

\* currentUserVote === voteType selects the delete branch
isToggleOff(currentUserVote, voteType) == currentUserVote = voteType

\* Variant: handleVote without the `if (!user)` early return
authRequired_never(user) == FALSE

\* if (!user) ... return
authRequired(user) == user = Null

\* The derived counters: recomputed from the ledger on every ledger write.
calculate_question_vote_count(rows, q) ==
  SumVotes({r \in rows : r.question_id = q})

calculate_answer_vote_count(rows, a) ==
  SumVotes({r \in rows : r.answer_id = a})

recountQuestions(qs, rows) ==
  [q \in DOMAIN qs |->
     IF \E r \in rows : r.question_id = q
       \/ \E r0 \in votes : r0.question_id = q
     THEN [qs[q] EXCEPT !.vote_count = calculate_question_vote_count(rows, q)]
     ELSE qs[q]]

recountAnswers(as, rows) ==
  [a \in DOMAIN as |->
     IF \E r \in rows : r.answer_id = a
       \/ \E r0 \in votes : r0.answer_id = a
     THEN [as[a] EXCEPT !.vote_count = calculate_answer_vote_count(rows, a)]
     ELSE as[a]]

(***************************************************************************)
(* QuestionDetail: what the page passes to its VoteButtons instances       *)
(***************************************************************************)

\* The controls the page renders once it has stopped loading and has a
\* question: one for the question and one per answer.
rendered(qst, ansv, ld) ==
  IF ld \/ qst.id = Null THEN {} ELSE {QCtl} \cup DOMAIN ansv

Controls(s) == rendered(question[s], answersView[s], loading[s])

\* questionId={question.id} is passed to the question's and to every
\* answer's control.
propQuestionId(s, c) == question[s].id

\* answerId={answer.id} is passed to an answer's control only.
propAnswerId(s, c) == IF c = QCtl THEN Null ELSE c

propCurrentVoteCount(qst, ansv, c) ==
  IF c = QCtl THEN qst.vote_count ELSE ansv[c].vote_count

\* userVote is never passed, so `userVote || null` is null.
propUserVote == NoVote

\* useState initialisers of VoteButtons
newControl(count) ==
  [voteCount |-> count, currentUserVote |-> propUserVote, isVoting |-> FALSE]

\* useEffect(..., [currentVoteCount, userVote]): runs when the prop changed
syncProps(ctl, oldCount, newCount) ==
  IF oldCount # newCount
  THEN [ctl EXCEPT !.voteCount = newCount, !.currentUserVote = propUserVote]
  ELSE ctl

\* Variant: every signed-in visitor may accept
canAccept_signedIn(s) == pageUser[s] # Null

\* canAccept={user?.id === question.user_id && !question.accepted_answer_id}
canAccept(s) ==
  /\ pageUser[s] # Null
  /\ pageUser[s] = question[s].user_id
  /\ question[s].accepted_answer_id = Null

\* The controls after the page state changed from (question, answersView)
\* to (qst, ansv): kept instances run the prop-sync effect, new answers
\* mount a new instance, vanished answers unmount theirs.
rerender(s, qst, ansv, ld) ==
  LET keys == rendered(qst, ansv, ld)
  IN  [c \in keys |->
         IF c \in DOMAIN vb[s]
         THEN syncProps(vb[s][c],
                        propCurrentVoteCount(question[s], answersView[s], c),
                        propCurrentVoteCount(qst, ansv, c))
         ELSE newControl(propCurrentVoteCount(qst, ansv, c))]

(***************************************************************************)
(* VoteButtons.handleVote                                                  *)
(***************************************************************************)

\* Variant: an optimistic update, the count moves at the click
HandleVoteStart_optimistic(s, c, voteType) ==
  /\ c \in Controls(s)
  /\ c \in DOMAIN vb[s]
  /\ ~vb[s][c].isVoting
  /\ c \notin DOMAIN voteOps[s]
  /\ Cardinality(DOMAIN voteOps[s]) < MaxInFlight
  /\ Len(castLog) < MaxCasts
  /\ vb' = [vb EXCEPT ![s][c].isVoting = TRUE,
                      ![s][c].voteCount = @ + voteType]
  /\ voteOps' = [voteOps EXCEPT ![s] =
       Put(@, c, [pc |-> "getUser",
                  voteType |-> voteType,
                  voteCount |-> vb[s][c].voteCount,
                  currentUserVote |-> vb[s][c].currentUserVote,
                  questionId |-> propQuestionId(s, c),
                  answerId |-> propAnswerId(s, c),
                  user |-> Null])]
  /\ toast' = NoToast
  /\ UNCHANGED <<dbVars, authUser, pageUser, pageId, question, answersView, loading,
                 fetchQ, fetchA, acceptOps, castLog>>
  /\ response' = NoResponse
  /\ UNCHANGED askVars
  /\ UNCHANGED <<profiles, profilePage, tagsTable, tagInput>>

\* onClick={() => handleVote(voteType)}: setIsVoting(true); the invocation
\* keeps the props and state of the render it was created in.
HandleVoteStart(s, c, voteType) ==
  /\ c \in Controls(s)
  /\ c \in DOMAIN vb[s]
  /\ ~vb[s][c].isVoting
  /\ c \notin DOMAIN voteOps[s]
  /\ Cardinality(DOMAIN voteOps[s]) < MaxInFlight
  /\ Len(castLog) < MaxCasts
  /\ vb' = [vb EXCEPT ![s][c].isVoting = TRUE]
  /\ voteOps' = [voteOps EXCEPT ![s] =
       Put(@, c, [pc |-> "getUser",
                  voteType |-> voteType,
                  voteCount |-> vb[s][c].voteCount,
                  currentUserVote |-> vb[s][c].currentUserVote,
                  questionId |-> propQuestionId(s, c),
                  answerId |-> propAnswerId(s, c),
                  user |-> Null])]
  /\ toast' = NoToast
  /\ UNCHANGED <<dbVars, authUser, pageUser, pageId, question, answersView, loading,
                 fetchQ, fetchA, acceptOps, castLog>>
  /\ response' = NoResponse
  /\ UNCHANGED askVars
  /\ UNCHANGED <<profiles, profilePage, tagsTable, tagInput>>

\* Variant: no finally block
endVoting_skipped(ctls, c) == ctls

\* The finally block of an invocation whose control is still mounted.
endVoting(ctls, c) ==
  IF c \in DOMAIN ctls THEN [ctls EXCEPT ![c].isVoting = FALSE] ELSE ctls

\* The rows of the votes table after the write of the invocation op
writeVote(rows, op, user) ==
  IF isToggleOff(op.currentUserVote, op.voteType)
  THEN deleteVote(rows, user, targetColumn(op.questionId),
                  targetValue(op.questionId, op.answerId))
  ELSE upsertVote(rows,
                  voteData(user, op.questionId, op.answerId, op.voteType),
                  targetColumn(op.questionId))

\* getUser() answers, then the delete or the upsert is executed by the
\* backend (or fails).
HandleVoteRemote(s, c) ==
  /\ c \in DOMAIN voteOps[s]
  /\ voteOps[s][c].pc = "getUser"
  /\ LET op   == voteOps[s][c]
         user == authUser[s]
     IN
     IF authRequired(user)
     THEN /\ toast' = Notice(s, "Please sign in to vote")
          /\ vb' = [vb EXCEPT ![s] = endVoting(@, c)]
          /\ voteOps' = [voteOps EXCEPT ![s] = Drop(@, c)]
          /\ UNCHANGED <<dbVars, castLog>>
     ELSE \/ \* the write is executed
             LET rows == writeVote(votes, op, user)
             IN  /\ votes' = rows
                 /\ questions' = recountQuestions(questions, rows)
                 /\ answers' = recountAnswers(answers, rows)
                 /\ voteOps' = [voteOps EXCEPT ![s][c].pc = "written",
                                               ![s][c].user = user]
                 /\ castLog' = Append(castLog,
                      [session |-> s, user |-> user, ctl |-> c,
                       questionId |-> op.questionId,
                       voteType |-> op.voteType, before |-> op.voteCount])
                 /\ toast' = NoToast
                 /\ UNCHANGED vb
          \/ \* if (error) throw error  -> catch, finally
             /\ toast' = Notice(s, "Failed to record your vote")
             /\ vb' = [vb EXCEPT ![s] = endVoting(@, c)]
             /\ voteOps' = [voteOps EXCEPT ![s] = Drop(@, c)]
             /\ UNCHANGED <<dbVars, castLog>>
  /\ UNCHANGED <<authUser, pageUser, pageId, question, answersView, loading,
                 fetchQ, fetchA, acceptOps>>
  /\ response' = NoResponse
  /\ UNCHANGED askVars
  /\ UNCHANGED <<profiles, profilePage, tagsTable, tagInput>>

\* newVoteCount of either branch
newVoteCount(op) ==
  IF isToggleOff(op.currentUserVote, op.voteType)
  THEN op.voteCount - op.voteType
  ELSE op.voteCount + (op.voteType - op.currentUserVote)

newUserVote(op) ==
  IF isToggleOff(op.currentUserVote, op.voteType) THEN NoVote ELSE op.voteType

\* onVoteChange of the question's control: setQuestion(prev => prev ? ...)
onVoteChangeQuestion(qst, n) ==
  IF qst.id = Null THEN qst ELSE [qst EXCEPT !.vote_count = n]

\* onVoteChange of an answer's control: setAnswers(prev => prev.map(...))
onVoteChangeAnswer(ansv, a, n) ==
  [x \in DOMAIN ansv |->
     IF x = a THEN [ansv[x] EXCEPT !.vote_count = n] ELSE ansv[x]]

\* After the write: setVoteCount, setCurrentUserVote, onVoteChange, the
\* re-render with its prop-sync effect, and the finally block.
HandleVoteFinish(s, c) ==
  /\ c \in DOMAIN voteOps[s]
  /\ voteOps[s][c].pc = "written"
  /\ LET op   == voteOps[s][c]
         n    == newVoteCount(op)
         qst  == IF c = QCtl THEN onVoteChangeQuestion(question[s], n)
                 ELSE question[s]
         ansv == IF c = QCtl THEN answersView[s]
                 ELSE onVoteChangeAnswer(answersView[s], c, n)
         set  == IF c \in DOMAIN vb[s]
                 THEN [vb[s] EXCEPT ![c].voteCount = n,
                                    ![c].currentUserVote = newUserVote(op)]
                 ELSE vb[s]
         synced == IF c \in DOMAIN set
                   THEN [set EXCEPT ![c] = syncProps(@,
                           propCurrentVoteCount(question[s], answersView[s], c),
                           propCurrentVoteCount(qst, ansv, c))]
                   ELSE set
     IN  /\ question' = [question EXCEPT ![s] = qst]
         /\ answersView' = [answersView EXCEPT ![s] = ansv]
         /\ vb' = [vb EXCEPT ![s] = endVoting(synced, c)]
  /\ voteOps' = [voteOps EXCEPT ![s] = Drop(@, c)]
  /\ toast' = NoToast
  /\ UNCHANGED <<dbVars, authUser, pageUser, pageId, loading, fetchQ,
                 fetchA, acceptOps, castLog>>
  /\ response' = NoResponse
  /\ UNCHANGED askVars
  /\ UNCHANGED <<profiles, profilePage, tagsTable, tagInput>>

(***************************************************************************)
(* QuestionDetail: fetchQuestion, fetchAnswers, the [id] effect            *)
(***************************************************************************)

\* The columns of a questions row that the page logic reads.
questionData(q) ==
  [id |-> q,
   user_id |-> questions[q].user_id,
   vote_count |-> questions[q].vote_count,
   accepted_answer_id |-> questions[q].accepted_answer_id]

\* The ids of the answers rows that handleSubmitAnswer inserts
NewAnswerId(i) == "n" \o ToString(i)

NewAnswerIds == {NewAnswerId(i) : i \in 1..MaxNewAnswers}

\* created_at of an answers row (default now()): the demo answers come from
\* one INSERT statement, the posted ones follow in the order of their inserts.
created_at(a) ==
  IF a \in NewAnswerIds THEN CHOOSE i \in 1..MaxNewAnswers : NewAnswerId(i) = a
  ELSE IF a \in DOMAIN SeedAnswers THEN 0
  ELSE 1

\* .order('is_accepted', { ascending: false })
\* .order('vote_count', { ascending: false })
\* .order('created_at', { ascending: true }): row ra, created at ta, sorts
\* strictly before row rb, created at tb.
comesBefore(ra, ta, rb, tb) ==
  \/ ra.is_accepted /\ ~rb.is_accepted
  \/ /\ ra.is_accepted = rb.is_accepted
     /\ ra.vote_count > rb.vote_count
  \/ /\ ra.is_accepted = rb.is_accepted
     /\ ra.vote_count = rb.vote_count
     /\ ta < tb

\* select ... from answers where question_id = id, ordered: index is the
\* row's place in the returned array (answers.map((answer, index) => ...)).
answersData(q) ==
  LET ids == {x \in DOMAIN answers : answers[x].question_id = q}
  IN  [a \in ids |->
         [vote_count |-> answers[a].vote_count,
          is_accepted |-> answers[a].is_accepted,
          index |-> Cardinality({b \in ids :
                       comesBefore(answers[b], created_at(b),
                                   answers[a], created_at(a))})]]

\* The response of fetchQuestion arrives: setQuestion(data), or the error
\* notice.
FetchQuestionDone(s) ==
  /\ fetchQ[s] # Null
  /\ fetchQ' = [fetchQ EXCEPT ![s] = Null]
  /\ \/ LET qst == questionData(fetchQ[s])
        IN  /\ question' = [question EXCEPT ![s] = qst]
            /\ vb' = [vb EXCEPT ![s] =
                       rerender(s, qst, answersView[s], loading[s])]
            /\ toast' = NoToast
     \/ /\ toast' = Notice(s, "Failed to load question")
        /\ UNCHANGED <<question, vb>>
  /\ UNCHANGED <<dbVars, authUser, pageUser, pageId, answersView, loading,
                 fetchA, voteOps, acceptOps, castLog>>
  /\ response' = NoResponse
  /\ UNCHANGED askVars
  /\ UNCHANGED <<profiles, profilePage, tagsTable, tagInput>>

\* The response of fetchAnswers arrives: setAnswers(data || []), or the
\* error is logged; finally setLoading(false).
FetchAnswersDone(s) ==
  /\ fetchA[s] # Null
  /\ fetchA' = [fetchA EXCEPT ![s] = Null]
  /\ loading' = [loading EXCEPT ![s] = FALSE]
  /\ \/ LET ansv == answersData(fetchA[s])
        IN  /\ answersView' = [answersView EXCEPT ![s] = ansv]
            /\ vb' = [vb EXCEPT ![s] = rerender(s, question[s], ansv, FALSE)]
     \/ /\ UNCHANGED answersView
        /\ vb' = [vb EXCEPT ![s] =
                   rerender(s, question[s], answersView[s], FALSE)]
  /\ toast' = NoToast
  /\ UNCHANGED <<dbVars, authUser, pageUser, pageId, question, fetchQ,
                 voteOps, acceptOps, castLog>>
  /\ response' = NoResponse
  /\ UNCHANGED askVars
  /\ UNCHANGED <<profiles, profilePage, tagsTable, tagInput>>

\* Variant: a call counts twice
increment_question_views_twice(qs, q) ==
  [qs EXCEPT ![q].view_count = @ + 2]

\* increment_question_views(question_id_param)
increment_question_views(qs, q) ==
  [qs EXCEPT ![q].view_count = @ + 1]

TotalViews == LET RECURSIVE S(_)
                  S(Q) == IF Q = {} THEN 0
                          ELSE LET q == CHOOSE x \in Q : TRUE
                               IN  questions[q].view_count + S(Q \ {q})
              IN  S(DOMAIN questions)

\* The route parameter changes: the [id] effect issues fetchQuestion,
\* fetchAnswers and incrementViewCount, and checkAuth re-reads the session.
NavigateWithin(s, q, limit) ==
  /\ q \in VisitedQuestions
  /\ q # pageId[s]
  /\ TotalViews < SeedViews + limit
  /\ pageId' = [pageId EXCEPT ![s] = q]
  /\ fetchQ' = [fetchQ EXCEPT ![s] = q]
  /\ fetchA' = [fetchA EXCEPT ![s] = q]
  /\ questions' = increment_question_views(questions, q)
  /\ pageUser' = [pageUser EXCEPT ![s] = authUser[s]]
  /\ toast' = NoToast
  /\ UNCHANGED <<answers, votes, authUser, question, answersView, loading,
                 vb, voteOps, acceptOps, castLog>>
  /\ response' = NoResponse
  /\ UNCHANGED askVars
  /\ UNCHANGED <<profiles, profilePage, tagsTable, tagInput>>

Navigate(s, q) == NavigateWithin(s, q, MaxViews)

\* QuestionDetail is mounted (the page is opened or reloaded): every state
\* takes its useState initial value, and the [id] effect runs as above.
MountWithin(s, limit) ==
  /\ DOMAIN voteOps[s] = {}
  /\ acceptOps[s] = <<>>
  /\ TotalViews < SeedViews + limit
  /\ question' = [question EXCEPT ![s] = noQuestion]
  /\ answersView' = [answersView EXCEPT ![s] = [a \in {} |-> Null]]
  /\ loading' = [loading EXCEPT ![s] = TRUE]
  /\ vb' = [vb EXCEPT ![s] = [c \in {} |-> Null]]
  /\ fetchQ' = [fetchQ EXCEPT ![s] = pageId[s]]
  /\ fetchA' = [fetchA EXCEPT ![s] = pageId[s]]
  /\ questions' = increment_question_views(questions, pageId[s])
  /\ pageUser' = [pageUser EXCEPT ![s] = authUser[s]]
  /\ toast' = NoToast
  /\ UNCHANGED <<answers, votes, authUser, pageId, voteOps, acceptOps,
                 castLog>>
  /\ response' = NoResponse
  /\ UNCHANGED askVars
  /\ UNCHANGED <<profiles, profilePage, tagsTable, tagInput>>

Mount(s) == MountWithin(s, MaxViews)

\* The auth session of the browser changes (sign-out or sign-in in another
\* tab); QuestionDetail keeps the user it read in checkAuth.
AuthChange(s, u) ==
  /\ u # authUser[s]
  /\ authUser' = [authUser EXCEPT ![s] = u]
  /\ toast' = NoToast
  /\ UNCHANGED <<dbVars, pageUser, pageId, question, answersView, loading, fetchQ,
                 fetchA, vb, voteOps, acceptOps, castLog>>
  /\ response' = NoResponse
  /\ UNCHANGED askVars
  /\ UNCHANGED <<profiles, profilePage, tagsTable, tagInput>>

(***************************************************************************)
(* QuestionDetail.handleSubmitAnswer                                       *)
(***************************************************************************)

RECURSIVE trimStart(_)
trimStart(str) ==
  IF str # <<>> /\ Head(str) = " " THEN trimStart(Tail(str)) ELSE str

RECURSIVE trimEnd(_)
trimEnd(str) ==
  IF str # <<>> /\ str[Len(str)] = " "
  THEN trimEnd(SubSeq(str, 1, Len(str) - 1)) ELSE str

\* Variant: the content is tested untrimmed
trim_not(str) == str

\* String.prototype.trim over the characters the inputs are drawn from
trim(str) == trimEnd(trimStart(str))

AnswerInputs == {<<>>, <<" ">>, <<"x">>, <<" ", "x">>}

\* The id the database gives the next inserted answer
nextAnswerId ==
  NewAnswerId(Cardinality(DOMAIN answers \cap NewAnswerIds) + 1)

\* insert into answers (content, question_id, user_id); the other columns
\* take their defaults, and the question's answer_count follows.
insertAnswer(as, id, q) ==
  Put(as, id, [question_id |-> q, vote_count |-> 0, is_accepted |-> FALSE])

\* Variant: the counter is not maintained
update_answer_count_never(qs, q) == qs

\* The question's answer_count after an answer row has been inserted: the
\* client sends no update of it and reads it back with fetchQuestion.
update_answer_count(qs, q) == [qs EXCEPT ![q].answer_count = @ + 1]

HandleSubmitAnswer(s, content) ==
  /\ question[s].id # Null
  /\ IF pageUser[s] = Null
     THEN /\ toast' = Notice(s, "Please sign in to post an answer")
          /\ UNCHANGED <<dbVars, fetchQ, fetchA>>
     ELSE IF trim(content) = <<>>
     THEN /\ toast' = Notice(s, "Answer required")
          /\ UNCHANGED <<dbVars, fetchQ, fetchA>>
     ELSE \/ /\ Cardinality(DOMAIN answers \cap NewAnswerIds) < MaxNewAnswers
             /\ answers' = insertAnswer(answers, nextAnswerId, pageId[s])
             /\ questions' = update_answer_count(questions, pageId[s])
             /\ toast' = Notice(s, "Answer posted!")
             /\ fetchA' = [fetchA EXCEPT ![s] = pageId[s]]
             /\ fetchQ' = [fetchQ EXCEPT ![s] = pageId[s]]
             /\ UNCHANGED votes
          \/ /\ toast' = Notice(s, "Failed to post answer")
             /\ UNCHANGED <<dbVars, fetchQ, fetchA>>
  /\ UNCHANGED <<authUser, pageUser, pageId, question, answersView, loading,
                 vb, voteOps, acceptOps, castLog>>
  /\ response' = NoResponse
  /\ UNCHANGED askVars
  /\ UNCHANGED <<profiles, profilePage, tagsTable, tagInput>>

(***************************************************************************)
(* AskQuestion.handleSubmit                                                *)
(***************************************************************************)

\* A question asked through AskQuestion: the counters take their defaults.
AskedQuestion(user, nAnswers) ==
  [user_id |-> user, vote_count |-> 0, view_count |-> 0,
   answer_count |-> nAnswers, accepted_answer_id |-> Null]

\* The values of the title field and of the editor, and the tags offered
TextInputs == {<<>>, <<" ">>, <<"x">>}

TagInputs == SUBSET {"css", "react"}

NewQuestionId(i) == "p" \o ToString(i)

NewQuestionIds == {NewQuestionId(i) : i \in 1..MaxQuestions}

\* The id the database gives the next inserted question
nextQuestionId ==
  NewQuestionId(Cardinality(DOMAIN questions \cap NewQuestionIds) + 1)

AskSignInText == "Please sign in to ask a question"

AskMissingText == "Please provide both a title and description"

AskTagsText == "Please add at least one tag to your question"

AskPostedText == "Question posted!"

AskFailedText == "Failed to post question"

\* Variant: the check of the tags is left out
noTags_never(tags) == FALSE

\* selectedTags.length === 0
noTags(tags) == tags = {}

\* Variant: a failed tag insert takes the question back
onTagError_rollback(qs, q) == Drop(qs, q)

\* The questions table after a tag insert has answered with an error: the
\* result of Promise.all is not inspected and nothing is undone.
onTagError(qs, q) == qs

\* onSubmit={handleSubmit}: the three checks; then setLoading(true) and the
\* questions insert is sent with the trimmed title and content.
AskSubmit(s, title, content, tags) ==
  /\ ask[s].pc = "idle"
  /\ IF pageUser[s] = Null
     THEN /\ toast' = Notice(s, AskSignInText)
          /\ UNCHANGED ask
     ELSE IF trim(title) = <<>> \/ trim(content) = <<>>
     THEN /\ toast' = Notice(s, AskMissingText)
          /\ UNCHANGED ask
     ELSE IF noTags(tags)
     THEN /\ toast' = Notice(s, AskTagsText)
          /\ UNCHANGED ask
     ELSE /\ toast' = NoToast
          /\ ask' = [ask EXCEPT ![s] =
               [pc |-> "insert", user |-> pageUser[s], title |-> trim(title),
                content |-> trim(content), tags |-> tags,
                questionId |-> Null, pending |-> {}]]
  /\ response' = NoResponse
  /\ UNCHANGED <<profiles, profilePage, tagsTable, tagInput>>
  /\ UNCHANGED <<dbVars, authUser, pageUser, pageId, question, answersView,
                 loading, fetchQ, fetchA, vb, voteOps, acceptOps, castLog,
                 question_tags>>

\* The questions insert answers: the new row, and one question_tags insert
\* per selected tag is sent; or an error, which the catch block reports
\* before finally resets loading.
AskInsertDone(s) ==
  /\ ask[s].pc = "insert"
  /\ \/ /\ Cardinality(DOMAIN questions \cap NewQuestionIds) < MaxQuestions
        /\ questions' = Put(questions, nextQuestionId,
                            AskedQuestion(ask[s].user, 0))
        /\ ask' = [ask EXCEPT ![s].pc = "tags",
                              ![s].questionId = nextQuestionId,
                              ![s].pending = ask[s].tags]
        /\ toast' = NoToast
     \/ /\ UNCHANGED questions
        /\ ask' = [ask EXCEPT ![s] = AskIdle]
        /\ toast' = Notice(s, AskFailedText)
  /\ response' = NoResponse
  /\ UNCHANGED <<profiles, profilePage, tagsTable, tagInput>>
  /\ UNCHANGED <<answers, votes, authUser, pageUser, pageId, question,
                 answersView, loading, fetchQ, fetchA, vb, voteOps, acceptOps,
                 castLog, question_tags>>

\* One of the question_tags inserts answers: the row, or an error.
AskTagDone(s, t) ==
  /\ ask[s].pc = "tags"
  /\ t \in ask[s].pending
  /\ \/ /\ question_tags' = question_tags \cup
              {[question_id |-> ask[s].questionId, tag_id |-> t]}
        /\ UNCHANGED questions
     \/ /\ UNCHANGED question_tags
        /\ questions' = onTagError(questions, ask[s].questionId)
  /\ ask' = [ask EXCEPT ![s].pending = @ \ {t}]
  /\ toast' = NoToast
  /\ response' = NoResponse
  /\ UNCHANGED <<profiles, profilePage, tagsTable, tagInput>>
  /\ UNCHANGED <<answers, votes, authUser, pageUser, pageId, question,
                 answersView, loading, fetchQ, fetchA, vb, voteOps, acceptOps,
                 castLog>>

\* Promise.all has resolved: the success notice, and navigate to the new
\* question, where QuestionDetail mounts and its [id] effect runs.
AskPosted(s) ==
  /\ ask[s].pc = "tags"
  /\ ask[s].pending = {}
  /\ LET q == ask[s].questionId
     IN  /\ pageId' = [pageId EXCEPT ![s] = q]
         /\ fetchQ' = [fetchQ EXCEPT ![s] = q]
         /\ fetchA' = [fetchA EXCEPT ![s] = q]
         /\ questions' = increment_question_views(questions, q)
  /\ question' = [question EXCEPT ![s] = noQuestion]
  /\ answersView' = [answersView EXCEPT ![s] = [a \in {} |-> Null]]
  /\ loading' = [loading EXCEPT ![s] = TRUE]
  /\ vb' = [vb EXCEPT ![s] = [c \in {} |-> Null]]
  /\ pageUser' = [pageUser EXCEPT ![s] = authUser[s]]
  /\ ask' = [ask EXCEPT ![s] = AskClosed]
  /\ toast' = Notice(s, AskPostedText)
  /\ response' = NoResponse
  /\ UNCHANGED <<profiles, profilePage, tagsTable, tagInput>>
  /\ UNCHANGED <<answers, votes, authUser, voteOps, acceptOps, castLog,
                 question_tags>>

\* The user opens /ask from a question page at rest: AskQuestion mounts
\* and checkAuth sets its user.
AskOpen(s) ==
  /\ ask[s].pc = "closed"
  /\ profilePage[s].pc = "closed"
  /\ authUser[s] # Null
  /\ fetchQ[s] = Null /\ fetchA[s] = Null
  /\ DOMAIN voteOps[s] = {} /\ acceptOps[s] = <<>>
  /\ Cardinality(DOMAIN questions \cap NewQuestionIds) < MaxQuestions
  /\ ask' = [ask EXCEPT ![s] = AskIdle]
  /\ pageUser' = [pageUser EXCEPT ![s] = authUser[s]]
  /\ pageId' = [pageId EXCEPT ![s] = Null]
  /\ question' = [question EXCEPT ![s] = noQuestion]
  /\ answersView' = [answersView EXCEPT ![s] = [a \in {} |-> Null]]
  /\ loading' = [loading EXCEPT ![s] = TRUE]
  /\ vb' = [vb EXCEPT ![s] = [c \in {} |-> Null]]
  /\ toast' = NoToast
  /\ response' = NoResponse
  /\ UNCHANGED <<profiles, profilePage, tagsTable, tagInput>>
  /\ UNCHANGED <<dbVars, authUser, fetchQ, fetchA, voteOps, acceptOps, castLog,
                 question_tags>>

(***************************************************************************)
(* Profile: checkAuth, fetchProfile, handleSaveProfile                     *)
(***************************************************************************)

\* What the user types into the display name and bio fields
NameInputs == {"", "JD"}

BioInputs == {"", "Writes specifications"}

ProfileSavedText == "Profile updated successfully"

\* Variant: the update without .eq('user_id', user.id)
updateProfile_everyRow(rows, uid, displayName, bio) ==
  [u \in DOMAIN rows |->
     [rows[u] EXCEPT !.display_name = displayName, !.bio = bio]]

\* .from('profiles').update({ display_name, bio }).eq('user_id', user.id)
updateProfile(rows, uid, displayName, bio) ==
  [u \in DOMAIN rows |->
     IF u = uid
     THEN [rows[u] EXCEPT !.display_name = displayName, !.bio = bio]
     ELSE rows[u]]

\* /profile is opened from a question page at rest: Profile mounts, and
\* checkAuth sets its user and sends fetchProfile; QuestionDetail unmounts.
ProfileOpen(s) ==
  /\ profilePage[s].pc = "closed"
  /\ ask[s].pc = "closed"
  /\ authUser[s] # Null
  /\ DOMAIN voteOps[s] = {} /\ acceptOps[s] = <<>>
  /\ profilePage' = [profilePage EXCEPT ![s] =
       [pc |-> "loading", user |-> authUser[s], profile |-> noProfile,
        editing |-> FALSE, request |-> noSave]]
  /\ pageId' = [pageId EXCEPT ![s] = Null]
  /\ question' = [question EXCEPT ![s] = noQuestion]
  /\ answersView' = [answersView EXCEPT ![s] = [a \in {} |-> Null]]
  /\ loading' = [loading EXCEPT ![s] = TRUE]
  /\ vb' = [vb EXCEPT ![s] = [c \in {} |-> Null]]
  /\ fetchQ' = [fetchQ EXCEPT ![s] = Null]
  /\ fetchA' = [fetchA EXCEPT ![s] = Null]
  /\ toast' = NoToast
  /\ response' = NoResponse
  /\ UNCHANGED <<dbVars, authUser, pageUser, voteOps, acceptOps, castLog,
                 askVars, profiles, tagsTable, tagInput>>

\* fetchProfile answers: setProfile(data), or the error notice; finally
\* setLoading(false).
ProfileFetched(s) ==
  /\ profilePage[s].pc = "loading"
  /\ \/ /\ profilePage' = [profilePage EXCEPT
                ![s].pc = "idle",
                ![s].profile = profiles[profilePage[s].user]]
        /\ toast' = NoToast
     \/ /\ profilePage' = [profilePage EXCEPT ![s].pc = "idle"]
        /\ toast' = Notice(s, "Failed to load profile")
  /\ response' = NoResponse
  /\ UNCHANGED <<dbVars, authUser, pageUser, pageId, question, answersView,
                 loading, fetchQ, fetchA, vb, voteOps, acceptOps, castLog,
                 askVars, profiles, tagsTable, tagInput>>

\* "Edit Profile" is clicked and the fields are filled in:
\* setEditing(true), setProfile(prev => prev ? { ...prev, display_name } :
\* null), the same for bio.
ProfileEdit(s, displayName, bio) ==
  /\ profilePage[s].pc = "idle"
  /\ profilePage[s].profile # noProfile
  /\ profilePage' = [profilePage EXCEPT
       ![s].editing = TRUE,
       ![s].profile = [@ EXCEPT !.display_name = displayName, !.bio = bio]]
  /\ toast' = NoToast
  /\ response' = NoResponse
  /\ UNCHANGED <<dbVars, authUser, pageUser, pageId, question, answersView,
                 loading, fetchQ, fetchA, vb, voteOps, acceptOps, castLog,
                 askVars, profiles, tagsTable, tagInput>>

\* onClick={handleSaveProfile}: if (!profile || !user) return;
\* setSaving(true) and the update is sent.
HandleSaveProfile(s) ==
  /\ profilePage[s].pc = "idle"
  /\ profilePage[s].editing
  /\ IF profilePage[s].profile = noProfile \/ profilePage[s].user = Null
     THEN UNCHANGED profilePage
     ELSE profilePage' = [profilePage EXCEPT
            ![s].pc = "saving",
            ![s].request = [user_id |-> profilePage[s].user,
                            display_name |-> profilePage[s].profile.display_name,
                            bio |-> profilePage[s].profile.bio]]
  /\ toast' = NoToast
  /\ response' = NoResponse
  /\ UNCHANGED <<dbVars, authUser, pageUser, pageId, question, answersView,
                 loading, fetchQ, fetchA, vb, voteOps, acceptOps, castLog,
                 askVars, profiles, tagsTable, tagInput>>

\* The update answers: the success notice and setEditing(false), or the
\* error notice; finally setSaving(false).
SaveProfileDone(s) ==
  /\ profilePage[s].pc = "saving"
  /\ LET req == profilePage[s].request
     IN  \/ /\ profiles' = updateProfile(profiles, req.user_id,
                                         req.display_name, req.bio)
            /\ profilePage' = [profilePage EXCEPT ![s].pc = "idle",
                                                  ![s].editing = FALSE,
                                                  ![s].request = noSave]
            /\ toast' = Notice(s, ProfileSavedText)
         \/ /\ UNCHANGED profiles
            /\ profilePage' = [profilePage EXCEPT ![s].pc = "idle",
                                                  ![s].request = noSave]
            /\ toast' = Notice(s, "Failed to update profile")
  /\ response' = NoResponse
  /\ UNCHANGED <<dbVars, authUser, pageUser, pageId, question, answersView,
                 loading, fetchQ, fetchA, vb, voteOps, acceptOps, castLog,
                 askVars, tagsTable, tagInput>>

(***************************************************************************)
(* VoteButtons.handleAccept and the accept_answer procedure                *)
(***************************************************************************)

\* accept_answer(question_id_param, answer_id_param), called with the
\* caller's auth session: the preconditions, checked atomically.
\* Variants of the preconditions: without "accepted_answer_id is null",
\* without any precondition on the question's state, without "requester is
\* the author".
accept_answer_ok_again(qs, as, requester, q, a) ==
  /\ q \in DOMAIN qs
  /\ a \in DOMAIN as
  /\ requester # Null
  /\ requester = qs[q].user_id
  /\ as[a].question_id = q

accept_answer_ok_racy(qs, as, requester, q, a) ==
  /\ q \in DOMAIN qs
  /\ a \in DOMAIN as
  /\ requester # Null
  /\ requester = qs[q].user_id
  /\ qs[q].accepted_answer_id \in {Null, a}
  /\ as[a].question_id = q

accept_answer_ok_anyone(qs, as, requester, q, a) ==
  /\ q \in DOMAIN qs
  /\ a \in DOMAIN as
  /\ requester # Null
  /\ qs[q].accepted_answer_id = Null
  /\ as[a].question_id = q

accept_answer_ok(qs, as, requester, q, a) ==
  /\ q \in DOMAIN qs
  /\ a \in DOMAIN as
  /\ requester # Null
  /\ requester = qs[q].user_id
  /\ qs[q].accepted_answer_id = Null
  /\ as[a].question_id = q

accept_answer_questions(qs, q, a) ==
  [qs EXCEPT ![q].accepted_answer_id = a]

accept_answer_answers(as, a) ==
  [as EXCEPT ![a].is_accepted = TRUE]

\* disabled={!canAccept || isAccepted} of the accept button, rendered for
\* controls with an answerId
acceptEnabled(s, c) ==
  /\ c # QCtl
  /\ canAccept(s)
  /\ ~answersView[s][c].is_accepted

\* Variant: onAccept is called at the click, before the rpc has answered
HandleAcceptStart_refetchFirst(s, c) ==
  /\ c \in Controls(s)
  /\ acceptEnabled(s, c)
  /\ propAnswerId(s, c) # Null /\ propQuestionId(s, c) # Null
  /\ Len(acceptOps[s]) < MaxAcceptsInFlight
  /\ acceptOps' = [acceptOps EXCEPT ![s] =
       Append(@, [question_id_param |-> propQuestionId(s, c),
                  answer_id_param |-> propAnswerId(s, c),
                  requester |-> authUser[s],
                  id |-> pageId[s]])]
  /\ fetchA' = [fetchA EXCEPT ![s] = pageId[s]]
  /\ fetchQ' = [fetchQ EXCEPT ![s] = pageId[s]]
  /\ toast' = NoToast
  /\ UNCHANGED <<dbVars, authUser, pageUser, pageId, question, answersView, loading,
                 vb, voteOps, castLog>>
  /\ response' = NoResponse
  /\ UNCHANGED askVars
  /\ UNCHANGED <<profiles, profilePage, tagsTable, tagInput>>

\* onClick={handleAccept}: the guard on the props, then the rpc is sent
\* with the session's credentials.
HandleAcceptStart(s, c) ==
  /\ c \in Controls(s)
  /\ acceptEnabled(s, c)
  /\ propAnswerId(s, c) # Null /\ propQuestionId(s, c) # Null
  /\ Len(acceptOps[s]) < MaxAcceptsInFlight
  /\ acceptOps' = [acceptOps EXCEPT ![s] =
       Append(@, [question_id_param |-> propQuestionId(s, c),
                  answer_id_param |-> propAnswerId(s, c),
                  requester |-> authUser[s],
                  id |-> pageId[s]])]
  /\ toast' = NoToast
  /\ UNCHANGED <<dbVars, authUser, pageUser, pageId, question, answersView, loading,
                 fetchQ, fetchA, vb, voteOps, castLog>>
  /\ response' = NoResponse
  /\ UNCHANGED askVars
  /\ UNCHANGED <<profiles, profilePage, tagsTable, tagInput>>

\* Variant: the answered call stays in flight and is sent again
RemoveAt_resend(seq, i) == seq

RemoveAt(seq, i) == SubSeq(seq, 1, i - 1) \o SubSeq(seq, i + 1, Len(seq))

AcceptedText == "Answer accepted"

NotPermittedText == "You can only accept answers to your own questions"

AcceptFailedText == "Failed to accept answer"

\* Variant: onAccept is called whatever data is
HandleAcceptDone_onAcceptAlways(s, i) ==
  /\ i \in 1..Len(acceptOps[s])
  /\ LET req == acceptOps[s][i]
         q   == req.question_id_param
         a   == req.answer_id_param
         ok  == accept_answer_ok(questions, answers, req.requester, q, a)
     IN  \/ /\ ok
            /\ questions' = accept_answer_questions(questions, q, a)
            /\ answers' = accept_answer_answers(answers, a)
            /\ fetchA' = [fetchA EXCEPT ![s] = req.id]
            /\ fetchQ' = [fetchQ EXCEPT ![s] = req.id]
            /\ toast' = Notice(s, AcceptedText)
            /\ response' = Response(req, TRUE, FALSE)
         \/ /\ ~ok
            /\ fetchA' = [fetchA EXCEPT ![s] = req.id]
            /\ fetchQ' = [fetchQ EXCEPT ![s] = req.id]
            /\ toast' = Notice(s, NotPermittedText)
            /\ response' = Response(req, FALSE, FALSE)
            /\ UNCHANGED <<questions, answers>>
         \/ /\ toast' = Notice(s, AcceptFailedText)
            /\ response' = Response(req, FALSE, TRUE)
            /\ UNCHANGED <<questions, answers, fetchA, fetchQ>>
  /\ acceptOps' = [acceptOps EXCEPT ![s] = RemoveAt(@, i)]
  /\ UNCHANGED <<votes, authUser, pageUser, pageId, question, answersView, loading,
                 vb, voteOps, castLog>>
  /\ UNCHANGED askVars
  /\ UNCHANGED <<profiles, profilePage, tagsTable, tagInput>>

\* The rpc is executed and answers: data true -> onAccept (handleAcceptAnswer
\* refetches answers and question) and the success notice; data false -> the
\* not-permitted notice; an error -> the failure notice.
HandleAcceptDone(s, i) ==
  /\ i \in 1..Len(acceptOps[s])
  /\ LET req == acceptOps[s][i]
         q   == req.question_id_param
         a   == req.answer_id_param
         ok  == accept_answer_ok(questions, answers, req.requester, q, a)
     IN  \/ /\ ok
            /\ questions' = accept_answer_questions(questions, q, a)
            /\ answers' = accept_answer_answers(answers, a)
            /\ fetchA' = [fetchA EXCEPT ![s] = req.id]
            /\ fetchQ' = [fetchQ EXCEPT ![s] = req.id]
            /\ toast' = Notice(s, AcceptedText)
            /\ response' = Response(req, TRUE, FALSE)
         \/ /\ ~ok
            /\ toast' = Notice(s, NotPermittedText)
            /\ response' = Response(req, FALSE, FALSE)
            /\ UNCHANGED <<questions, answers, fetchA, fetchQ>>
         \/ /\ toast' = Notice(s, AcceptFailedText)
            /\ response' = Response(req, FALSE, TRUE)
            /\ UNCHANGED <<questions, answers, fetchA, fetchQ>>
  /\ acceptOps' = [acceptOps EXCEPT ![s] = RemoveAt(@, i)]
  /\ UNCHANGED <<votes, authUser, pageUser, pageId, question, answersView, loading,
                 vb, voteOps, castLog>>
  /\ UNCHANGED askVars
  /\ UNCHANGED <<profiles, profilePage, tagsTable, tagInput>>

(***************************************************************************)
(* Specifications                                                          *)
(***************************************************************************)

\* Every session in S has finished loading the page of question q.
PageLoaded(S, q) ==
  /\ pageId = [s \in S |-> q]
  /\ question = [s \in S |-> questionData(q)]
  /\ answersView = [s \in S |-> answersData(q)]
  /\ loading = [s \in S |-> FALSE]
  /\ fetchQ = [s \in S |-> Null]
  /\ fetchA = [s \in S |-> Null]
  /\ vb = [s \in S |->
            [c \in {QCtl} \cup DOMAIN answersData(q) |->
               newControl(IF c = QCtl THEN questions[q].vote_count
                          ELSE answers[c].vote_count)]]
  /\ voteOps = [s \in S |-> [c \in {} |-> Null]]
  /\ acceptOps = [s \in S |-> <<>>]
  /\ toast = NoToast
  /\ response = NoResponse
  /\ castLog = <<>>
  /\ question_tags = SeedQuestionTags
  /\ ask = [s \in S |-> AskClosed]
  /\ OtherPagesClosed(S)

\* Voting on a question: two browser sessions have opened question q1,
\* which u1 asked after the seed; no vote has been cast on it. Session s1
\* is signed in as u1, session s2 as u2 or not at all.
InitVote ==
  /\ questions = Put(SeedQuestions, "q1", AskedQuestion("u1", 0))
  /\ answers = SeedAnswers
  /\ votes = {}
  /\ authUser \in {[s \in VoteSessions |-> IF s = "s1" THEN "u1" ELSE u] :
                     u \in {"u2", Null}}
  /\ pageUser = authUser
  /\ PageLoaded(VoteSessions, "q1")

NextVote ==
  \/ \E s \in VoteSessions : \E c \in Controls(s), voteType \in {1, -1} :
       HandleVoteStart(s, c, voteType)
  \/ \E s \in VoteSessions : \E c \in DOMAIN voteOps[s] :
       HandleVoteRemote(s, c)
  \/ \E s \in VoteSessions : \E c \in DOMAIN voteOps[s] :
       HandleVoteFinish(s, c)
  \/ \E s \in VoteSessions : Mount(s)
  \/ \E s \in VoteSessions : FetchQuestionDone(s)
  \/ \E s \in VoteSessions : FetchAnswersDone(s)

SpecVote == InitVote /\ [][NextVote]_vars

\* The controls of one page: one browser session has opened question q1,
\* which u1 asked and which has the answer a1 (posted through
\* handleSubmitAnswer); the visitor votes, accepts and reloads.
InitPage ==
  /\ questions = Put(SeedQuestions, "q1", AskedQuestion("u1", 1))
  /\ answers = insertAnswer(SeedAnswers, "a1", "q1")
  /\ votes = {}
  /\ authUser \in [PageSessions -> {"u1", Null}]
  /\ pageUser = authUser
  /\ PageLoaded(PageSessions, "q1")

NextPage ==
  \/ \E s \in PageSessions : \E c \in Controls(s), voteType \in {1, -1} :
       HandleVoteStart(s, c, voteType)
  \/ \E s \in PageSessions : \E c \in DOMAIN voteOps[s] :
       HandleVoteRemote(s, c)
  \/ \E s \in PageSessions : \E c \in DOMAIN voteOps[s] :
       HandleVoteFinish(s, c)
  \/ \E s \in PageSessions : \E c \in Controls(s) : HandleAcceptStart(s, c)
  \/ \E s \in PageSessions : \E i \in 1..Len(acceptOps[s]) :
       HandleAcceptDone(s, i)
  \/ \E s \in PageSessions : Mount(s)
  \/ \E s \in PageSessions : FetchQuestionDone(s)
  \/ \E s \in PageSessions : FetchAnswersDone(s)

SpecPage == InitPage /\ [][NextPage]_vars

\* The seed database after two answers have been posted to question qc
\* through handleSubmitAnswer
PostedAnswers ==
  insertAnswer(insertAnswer(SeedAnswers, NewAnswerId(1), "qc"),
               NewAnswerId(2), "qc")

PostedQuestions == [SeedQuestions EXCEPT !["qc"].answer_count = @ + 2]

\* Acceptance: one browser session on the database the demo seed migration
\* leaves behind, as it is or after the two answers to qc have been posted.
InitAccept ==
  /\ \/ questions = SeedQuestions /\ answers = SeedAnswers
     \/ questions = PostedQuestions /\ answers = PostedAnswers
  /\ votes = {}
  /\ authUser \in [PageSessions -> AcceptUsers]
  /\ pageUser = authUser
  /\ \E q \in VisitedQuestions : PageLoaded(PageSessions, q)

NextAccept ==
  \/ \E s \in PageSessions : \E c \in Controls(s) : HandleAcceptStart(s, c)
  \/ \E s \in PageSessions : \E i \in 1..Len(acceptOps[s]) :
       HandleAcceptDone(s, i)
  \/ \E s \in PageSessions : \E q \in VisitedQuestions : Navigate(s, q)
  \/ \E s \in PageSessions : \E u \in AcceptUsers : AuthChange(s, u)
  \/ \E s \in PageSessions : FetchQuestionDone(s)
  \/ \E s \in PageSessions : FetchAnswersDone(s)

SpecAccept == InitAccept /\ [][NextAccept]_vars

\* Posting answers: one browser session, signed in or not, on the seed
\* database.
InitAnswer ==
  /\ questions = SeedQuestions
  /\ answers = SeedAnswers
  /\ votes = {}
  /\ authUser \in [PageSessions -> {"u1", Null}]
  /\ pageUser = authUser
  /\ \E q \in VisitedQuestions : PageLoaded(PageSessions, q)

NextAnswer ==
  \/ \E s \in PageSessions : \E content \in AnswerInputs :
       HandleSubmitAnswer(s, content)
  \/ \E s \in PageSessions : \E q \in VisitedQuestions : Navigate(s, q)
  \/ \E s \in PageSessions : FetchQuestionDone(s)
  \/ \E s \in PageSessions : FetchAnswersDone(s)

SpecAnswer == InitAnswer /\ [][NextAnswer]_vars

\* Asking: one browser session has AskQuestion open on the demo seed;
\* checkAuth has found u1, or has not set a user.
InitAsk ==
  /\ questions = SeedQuestions
  /\ answers = SeedAnswers
  /\ votes = {}
  /\ question_tags = SeedQuestionTags
  /\ authUser \in [PageSessions -> {"u1", Null}]
  /\ pageUser = authUser
  /\ pageId = [s \in PageSessions |-> Null]
  /\ question = [s \in PageSessions |-> noQuestion]
  /\ answersView = [s \in PageSessions |-> [a \in {} |-> Null]]
  /\ loading = [s \in PageSessions |-> TRUE]
  /\ fetchQ = [s \in PageSessions |-> Null]
  /\ fetchA = [s \in PageSessions |-> Null]
  /\ vb = [s \in PageSessions |-> [c \in {} |-> Null]]
  /\ voteOps = [s \in PageSessions |-> [c \in {} |-> Null]]
  /\ acceptOps = [s \in PageSessions |-> <<>>]
  /\ toast = NoToast
  /\ response = NoResponse
  /\ castLog = <<>>
  /\ ask = [s \in PageSessions |-> AskIdle]
  /\ OtherPagesClosed(PageSessions)

NextAsk ==
  \/ \E s \in PageSessions :
       \E title \in TextInputs, content \in TextInputs, tags \in TagInputs :
         AskSubmit(s, title, content, tags)
  \/ \E s \in PageSessions : AskInsertDone(s)
  \/ \E s \in PageSessions : \E t \in ask[s].pending : AskTagDone(s, t)
  \/ \E s \in PageSessions : AskPosted(s)
  \/ \E s \in PageSessions : AskOpen(s)
  \/ \E s \in PageSessions : FetchQuestionDone(s)
  \/ \E s \in PageSessions : FetchAnswersDone(s)

SpecAsk == InitAsk /\ [][NextAsk]_vars

\* All four mutation paths in one browser session: u1 has opened the own
\* question q1, which has the answer a1; u1 votes on the question, accepts,
\* posts answers and asks further questions.  The responses of the page's
\* refetches are outstanding throughout: the page keeps what it has loaded.
InitActions ==
  /\ questions = Put(SeedQuestions, "q1", AskedQuestion("u1", 1))
  /\ answers = insertAnswer(SeedAnswers, "a1", "q1")
  /\ votes = {}
  /\ authUser = [s \in PageSessions |-> "u1"]
  /\ pageUser = authUser
  /\ PageLoaded(PageSessions, "q1")

NextActions ==
  \/ \E s \in PageSessions : \E voteType \in {1, -1} :
       HandleVoteStart(s, QCtl, voteType)
  \/ \E s \in PageSessions : HandleVoteRemote(s, QCtl)
  \/ \E s \in PageSessions : HandleVoteFinish(s, QCtl)
  \/ \E s \in PageSessions : \E c \in Controls(s) : HandleAcceptStart(s, c)
  \/ \E s \in PageSessions : \E i \in 1..Len(acceptOps[s]) :
       HandleAcceptDone(s, i)
  \/ \E s \in PageSessions : \E content \in AnswerInputs :
       HandleSubmitAnswer(s, content)
  \/ \E s \in PageSessions : AskOpen(s)
  \/ \E s \in PageSessions :
       \E title \in TextInputs, content \in TextInputs, tags \in TagInputs :
         AskSubmit(s, title, content, tags)
  \/ \E s \in PageSessions : AskInsertDone(s)
  \/ \E s \in PageSessions : \E t \in ask[s].pending : AskTagDone(s, t)
  \/ \E s \in PageSessions : AskPosted(s)

SpecActions == InitActions /\ [][NextActions]_vars

\* The profile: the session of the specification above, which can also
\* open /profile, edit and save.
NextProfile ==
  \/ \E s \in PageSessions : \E voteType \in {1, -1} :
       HandleVoteStart(s, QCtl, voteType)
  \/ \E s \in PageSessions : HandleVoteRemote(s, QCtl)
  \/ \E s \in PageSessions : HandleVoteFinish(s, QCtl)
  \/ \E s \in PageSessions : \E c \in Controls(s) : HandleAcceptStart(s, c)
  \/ \E s \in PageSessions : \E i \in 1..Len(acceptOps[s]) :
       HandleAcceptDone(s, i)
  \/ \E s \in PageSessions : \E content \in AnswerInputs :
       HandleSubmitAnswer(s, content)
  \/ \E s \in PageSessions : AskOpen(s)
  \/ \E s \in PageSessions :
       \E title \in TextInputs, content \in TextInputs, tags \in TagInputs :
         AskSubmit(s, title, content, tags)
  \/ \E s \in PageSessions : AskInsertDone(s)
  \/ \E s \in PageSessions : \E t \in ask[s].pending : AskTagDone(s, t)
  \/ \E s \in PageSessions : AskPosted(s)
  \/ \E s \in PageSessions : ProfileOpen(s)
  \/ \E s \in PageSessions : ProfileFetched(s)
  \/ \E s \in PageSessions :
       \E displayName \in NameInputs, bio \in BioInputs :
         ProfileEdit(s, displayName, bio)
  \/ \E s \in PageSessions : HandleSaveProfile(s)
  \/ \E s \in PageSessions : SaveProfileDone(s)

SpecProfile == InitActions /\ [][NextProfile]_vars

\* The answer list: one browser session of u1 has opened qc after its two
\* answers have been posted; the visitor votes on the question and on the
\* answers and reloads.
InitList ==
  /\ questions = PostedQuestions
  /\ answers = PostedAnswers
  /\ votes = {}
  /\ authUser = [s \in PageSessions |-> "u1"]
  /\ pageUser = authUser
  /\ PageLoaded(PageSessions, "qc")

NextList ==
  \/ \E s \in PageSessions : \E c \in Controls(s), voteType \in {1, -1} :
       HandleVoteStart(s, c, voteType)
  \/ \E s \in PageSessions : \E c \in DOMAIN voteOps[s] :
       HandleVoteRemote(s, c)
  \/ \E s \in PageSessions : \E c \in DOMAIN voteOps[s] :
       HandleVoteFinish(s, c)
  \/ \E s \in PageSessions : Mount(s)
  \/ \E s \in PageSessions : FetchQuestionDone(s)
  \/ \E s \in PageSessions : FetchAnswersDone(s)

SpecList == InitList /\ [][NextList]_vars

\* Viewers: two browser sessions, signed in or not, open and reload the
\* pages of the demo questions.
InitViews ==
  /\ questions = SeedQuestions
  /\ answers = SeedAnswers
  /\ votes = {}
  /\ authUser \in [VoteSessions -> {"u1", Null}]
  /\ pageUser = authUser
  /\ \E q \in VisitedQuestions : PageLoaded(VoteSessions, q)

NextViews ==
  \/ \E s \in VoteSessions : \E q \in VisitedQuestions :
       NavigateWithin(s, q, MaxLoads)
  \/ \E s \in VoteSessions : MountWithin(s, MaxLoads)
  \/ \E s \in VoteSessions : FetchQuestionDone(s)
  \/ \E s \in VoteSessions : FetchAnswersDone(s)

SpecViews == InitViews /\ [][NextViews]_vars

\* Two tabs of one user: both browser sessions are signed in as u1 and have
\* opened question q1; no vote has been cast on it.
InitTabs ==
  /\ questions = Put(SeedQuestions, "q1", AskedQuestion("u1", 0))
  /\ answers = SeedAnswers
  /\ votes = {}
  /\ authUser = [s \in VoteSessions |-> "u1"]
  /\ pageUser = authUser
  /\ PageLoaded(VoteSessions, "q1")

SpecTabs == InitTabs /\ [][NextVote]_vars

\* The vote another user cast on question q1 earlier, from a browser that
\* has been closed since
EarlierVote == voteData("u2", "q1", Null, 1)

\* Question q1 of u1 with the answer a1 and the earlier vote of u2, before
\* u1 accepts a1
LedgerQuestions ==
  [Put(SeedQuestions, "q1", AskedQuestion("u1", 1))
     EXCEPT !["q1"].vote_count =
              calculate_question_vote_count({EarlierVote}, "q1")]

LedgerAnswers == insertAnswer(SeedAnswers, "a1", "q1")

\* A page among other voters: the one browser session, signed in as u1, has
\* opened question q1 and has just accepted the answer a1; the accept_answer
\* call has succeeded and the refetch of handleAcceptAnswer is in flight,
\* so the page still shows the rows it loaded.
InitLedger ==
  /\ votes = {EarlierVote}
  /\ questions = accept_answer_questions(LedgerQuestions, "q1", "a1")
  /\ answers = accept_answer_answers(LedgerAnswers, "a1")
  /\ authUser = [s \in PageSessions |-> "u1"]
  /\ pageUser = authUser
  /\ pageId = [s \in PageSessions |-> "q1"]
  /\ question = [s \in PageSessions |->
                   [id |-> "q1",
                    user_id |-> LedgerQuestions["q1"].user_id,
                    vote_count |-> LedgerQuestions["q1"].vote_count,
                    accepted_answer_id |-> Null]]
  /\ answersView = [s \in PageSessions |->
                      [a \in {"a1"} |->
                         [vote_count |-> LedgerAnswers[a].vote_count,
                          is_accepted |-> FALSE,
                          index |-> 0]]]
  /\ loading = [s \in PageSessions |-> FALSE]
  /\ fetchQ = [s \in PageSessions |-> "q1"]
  /\ fetchA = [s \in PageSessions |-> "q1"]
  /\ vb = [s \in PageSessions |->
            [c \in {QCtl, "a1"} |->
               newControl(IF c = QCtl THEN LedgerQuestions["q1"].vote_count
                          ELSE LedgerAnswers[c].vote_count)]]
  /\ voteOps = [s \in PageSessions |-> [c \in {} |-> Null]]
  /\ acceptOps = [s \in PageSessions |-> <<>>]
  /\ toast = Notice("s1", AcceptedText)
  /\ response = Response([question_id_param |-> "q1", answer_id_param |-> "a1",
                          requester |-> "u1"], TRUE, FALSE)
  /\ castLog = <<>>
  /\ question_tags = SeedQuestionTags
  /\ ask = [s \in PageSessions |-> AskClosed]
  /\ OtherPagesClosed(PageSessions)

NextLedger ==
  \/ \E s \in PageSessions : \E c \in Controls(s), voteType \in {1, -1} :
       HandleVoteStart(s, c, voteType)
  \/ \E s \in PageSessions : \E c \in DOMAIN voteOps[s] :
       HandleVoteRemote(s, c)
  \/ \E s \in PageSessions : \E c \in DOMAIN voteOps[s] :
       HandleVoteFinish(s, c)
  \/ \E s \in PageSessions : FetchQuestionDone(s)
  \/ \E s \in PageSessions : FetchAnswersDone(s)

SpecLedger == InitLedger /\ [][NextLedger]_vars

(***************************************************************************)
(* Properties of the vote ledger and the vote aggregate                    *)
(***************************************************************************)

\* No handleVote invocation is in progress.
Quiescent == \A s \in Sessions : DOMAIN voteOps[s] = {}

\* The live ledger rows whose target is question q
QuestionRows(rows, q) == {r \in rows : r.question_id = q}

\* The example of the testable properties, with A = u1 and B = u2: the
\* casts and the aggregate after each.
ExampleCasts ==
  <<[user |-> "u1", voteType |-> 1], [user |-> "u2", voteType |-> 1],
    [user |-> "u1", voteType |-> -1], [user |-> "u1", voteType |-> -1]>>

ExampleCounts == <<1, 2, 0, 1>>

\* The backend has executed exactly the first k casts of the example, all
\* through the vote control of question q1.
ExampleRun(k) ==
  /\ Len(castLog) = k
  /\ \A i \in 1..k :
       /\ castLog[i].user = ExampleCasts[i].user
       /\ castLog[i].voteType = ExampleCasts[i].voteType
       /\ castLog[i].ctl = QCtl
       /\ castLog[i].questionId = "q1"

\* C1 (as stated): after any sequence of casts on question q1, which starts
\* with an empty ledger and an aggregate of 0, the question's cached vote
\* aggregate equals the sum of voteType over its live ledger rows, and after
\* the k-th cast of the example A:+1, B:+1, A:-1, A:-1 it is 1, 2, 0, 1.
C1_AggregateIsLedgerSum ==
  /\ questions["q1"].vote_count = SumVotes(QuestionRows(votes, "q1"))
  /\ \A k \in 1..Len(ExampleCasts) :
       (Quiescent /\ ExampleRun(k)) =>
         /\ questions["q1"].vote_count = ExampleCounts[k]
         /\ SumVotes(QuestionRows(votes, "q1")) = ExampleCounts[k]

\* C2 (as stated): when the first two casts are the same value by the same
\* user through the same question control, then after the second the user
\* has no ledger row on the question and the aggregate, cached and shown by
\* the control, is back at its value before the first cast.
C2_ToggleTwiceLeavesNoRow ==
  (/\ Len(castLog) = 2
   /\ Quiescent
   /\ castLog[1].session = castLog[2].session
   /\ castLog[1].user = castLog[2].user
   /\ castLog[1].ctl = QCtl /\ castLog[2].ctl = QCtl
   /\ castLog[1].questionId = castLog[2].questionId
   /\ castLog[1].voteType = castLog[2].voteType
   /\ QCtl \in DOMAIN vb[castLog[1].session])
  => LET q == castLog[1].questionId
         s == castLog[1].session
     IN  /\ ~\E r \in QuestionRows(votes, q) : r.user_id = castLog[1].user
         /\ questions[q].vote_count = castLog[1].before
         /\ vb[s][QCtl].voteCount = castLog[1].before

\* C3 (as stated): a step in which the backend executes a vote cast through
\* the control of an answer creates, replaces or deletes only ledger rows
\* of the acting user whose answer_id is that answer and whose question_id
\* is unset; the rows whose target is a question stay as they are.
C3_AnswerVoteTouchesOnlyAnswerRow ==
  [][(Len(castLog') > Len(castLog) /\ castLog'[Len(castLog')].ctl # QCtl)
       => LET e == castLog'[Len(castLog')]
          IN  /\ \A r \in (votes' \ votes) \cup (votes \ votes') :
                   /\ r.user_id = e.user
                   /\ r.answer_id = e.ctl
                   /\ r.question_id = Null
              /\ {r \in votes' : r.question_id # Null}
                   = {r \in votes : r.question_id # Null}]_vars

\* C4 (as stated): when the votes of two different users on the same
\* question overlap (both writes are executed before either invocation
\* finishes), the ledger holds both users' rows and the aggregate an
\* invocation leaves in its control is the sum of the ledger, so it includes
\* both contributions.
C4_ConcurrentVotesBothReflected ==
  [][\A s, t \in Sessions :
       (/\ s # t
        /\ QCtl \in DOMAIN voteOps[s] /\ QCtl \in DOMAIN voteOps[t]
        /\ voteOps[s][QCtl].pc = "written" /\ voteOps[t][QCtl].pc = "written"
        /\ voteOps[s][QCtl].user # voteOps[t][QCtl].user
        /\ voteOps[s][QCtl].questionId = voteOps[t][QCtl].questionId
        /\ voteOps[s][QCtl].currentUserVote = NoVote
        /\ voteOps[t][QCtl].currentUserVote = NoVote
        /\ QCtl \notin DOMAIN voteOps'[s]
        /\ QCtl \in DOMAIN vb'[s])
       => LET q == voteOps[s][QCtl].questionId
          IN  /\ \E r \in QuestionRows(votes', q) :
                   r.user_id = voteOps[s][QCtl].user
              /\ \E r \in QuestionRows(votes', q) :
                   r.user_id = voteOps[t][QCtl].user
              /\ vb'[s][QCtl].voteCount = SumVotes(QuestionRows(votes', q))]_vars

\* C10: the step that answers getUser() for a handleVote invocation of a
\* session without a signed-in user ends the invocation with the sign-in
\* notice and leaves the ledger, the cached aggregates, the page's question
\* and answers and the control's voteCount and currentUserVote unchanged.
C10_UnauthenticatedVoteRejected ==
  [][\A s \in Sessions : \A c \in DOMAIN voteOps[s] :
       (/\ voteOps[s][c].pc = "getUser"
        /\ authUser[s] = Null
        /\ c \in DOMAIN voteOps'[s] => voteOps'[s][c] # voteOps[s][c])
       => /\ c \notin DOMAIN voteOps'[s]
          /\ toast' = Notice(s, "Please sign in to vote")
          /\ UNCHANGED <<votes, questions, answers, question, answersView>>
          /\ c \in DOMAIN vb[s] =>
               /\ c \in DOMAIN vb'[s]
               /\ vb'[s][c].voteCount = vb[s][c].voteCount
               /\ vb'[s][c].currentUserVote = vb[s][c].currentUserVote]_vars

\* A signed-out session has just been refused a vote on a question other
\* users have voted on.
C10_Witness ==
  /\ toast.text = "Please sign in to vote"
  /\ toast.session \in Sessions
  /\ authUser[toast.session] = Null
  /\ DOMAIN voteOps[toast.session] = {}
  /\ votes # {}

(***************************************************************************)
(* Properties of answer acceptance                                         *)
(***************************************************************************)

\* The preconditions of the acceptance contract, one by one, for the
\* accept_answer call rq against the tables qs and as
byAuthor(qs, rq) == rq.requester = qs[rq.question_id_param].user_id

notYetAccepted(qs, rq) == qs[rq.question_id_param].accepted_answer_id = Null

ownAnswer(as, rq) == as[rq.answer_id_param].question_id = rq.question_id_param

\* C5: a question's accepted_answer_id, once non-null, keeps its value in
\* every step; an accept_answer call by the author for an answer of the
\* question succeeds when the question has no accepted answer (unless the
\* call fails remotely), and a call that finds the question already
\* accepted returns no success and changes no table.
C5_AcceptedOnce ==
  /\ [][\A q \in DOMAIN questions :
          questions[q].accepted_answer_id # Null =>
            questions'[q].accepted_answer_id = questions[q].accepted_answer_id]_vars
  /\ [][response'.received =>
          /\ (/\ byAuthor(questions, response')
              /\ notYetAccepted(questions, response')
              /\ ownAnswer(answers, response')
              /\ ~response'.error)
             => /\ response'.data
                /\ questions'[response'.question_id_param].accepted_answer_id
                     = response'.answer_id_param
          /\ ~notYetAccepted(questions, response')
             => /\ ~response'.data
                /\ UNCHANGED dbVars]_vars

\* The author's call for a second answer of the question has just returned
\* false: the question keeps the answer accepted first.
C5_Witness ==
  /\ response.received /\ ~response.data /\ ~response.error
  /\ byAuthor(questions, response)
  /\ ownAnswer(answers, response)
  /\ questions[response.question_id_param].accepted_answer_id
       \notin {Null, response.answer_id_param}
  /\ answers[questions[response.question_id_param].accepted_answer_id]
       .question_id = response.question_id_param

\* C6: when two accept_answer calls for the same question are in flight
\* and each would be granted on its own, the one executed first returns
\* success and leaves a state in which the other is refused; no call
\* returns success for a question that has an accepted answer, so the two
\* calls have exactly one success.
C6_ExactlyOneSuccess ==
  [][/\ response'.data =>
          /\ notYetAccepted(questions, response')
          /\ ~notYetAccepted(questions', response')
     /\ \A s \in Sessions : \A i, j \in 1..Len(acceptOps[s]) :
          (/\ i # j
           /\ acceptOps[s][i].question_id_param
                = acceptOps[s][j].question_id_param
           /\ byAuthor(questions, acceptOps[s][i])
           /\ byAuthor(questions, acceptOps[s][j])
           /\ notYetAccepted(questions, acceptOps[s][i])
           /\ ownAnswer(answers, acceptOps[s][i])
           /\ ownAnswer(answers, acceptOps[s][j])
           /\ acceptOps'[s] = RemoveAt(acceptOps[s], i)
           /\ response'.received /\ ~response'.error)
          => /\ response'.data
             /\ ~notYetAccepted(questions', acceptOps[s][j])]_vars

\* One of two simultaneous calls by the author has just succeeded while the
\* other, for an answer of the same question, is still in flight.
C6_Witness ==
  /\ response.received /\ response.data
  /\ \E s \in Sessions : \E j \in 1..Len(acceptOps[s]) :
       /\ acceptOps[s][j].question_id_param = response.question_id_param
       /\ byAuthor(questions, acceptOps[s][j])
       /\ ownAnswer(answers, acceptOps[s][j])

\* C7: an accept_answer call whose requester is not the question's author
\* returns no success and changes no table, whatever the question's
\* accepted answer and the answer's question are; when the call is answered
\* at all, the answer is false and the not-permitted notice is shown.
C7_NonAuthorRefused ==
  [][(response'.received /\ ~byAuthor(questions, response'))
       => /\ ~response'.data
          /\ UNCHANGED dbVars
          /\ ~response'.error => toast'.text = NotPermittedText]_vars

\* A signed-in user who is not the author has just been refused, although
\* the question had no accepted answer and the answer belongs to it.
C7_Witness ==
  /\ response.received /\ ~response.data /\ ~response.error
  /\ response.requester # Null
  /\ ~byAuthor(questions, response)
  /\ notYetAccepted(questions, response)
  /\ ownAnswer(answers, response)

\* C8: at most one answer per question has is_accepted = true, and an
\* answer has is_accepted = true exactly when its question's
\* accepted_answer_id is that answer.
C8_AcceptedFlagMatches ==
  /\ \A q \in DOMAIN questions :
       Cardinality({a \in DOMAIN answers :
                      answers[a].question_id = q /\ answers[a].is_accepted}) <= 1
  /\ \A a \in DOMAIN answers :
       answers[a].is_accepted <=>
         questions[answers[a].question_id].accepted_answer_id = a

\* An answer posted after the seed has been accepted, next to the seed's
\* accepted answers.
C8_Witness ==
  /\ \E a \in DOMAIN answers \ DOMAIN SeedAnswers : answers[a].is_accepted
  /\ \E a \in DOMAIN SeedAnswers : answers[a].is_accepted

\* C9: a non-null accepted_answer_id of a question is an answer of that
\* question, and an accept_answer call for an answer of a different
\* question returns no success and changes no table.
C9_AcceptedAnswerBelongs ==
  /\ [](\A q \in DOMAIN questions :
          questions[q].accepted_answer_id # Null =>
            /\ questions[q].accepted_answer_id \in DOMAIN answers
            /\ answers[questions[q].accepted_answer_id].question_id = q)
  /\ [][(response'.received /\ ~ownAnswer(answers, response'))
          => /\ ~response'.data
             /\ UNCHANGED dbVars]_vars

\* The author of a question without accepted answer has just been refused
\* an answer of another question.
C9_Witness ==
  /\ response.received /\ ~response.data /\ ~response.error
  /\ byAuthor(questions, response)
  /\ notYetAccepted(questions, response)
  /\ ~ownAnswer(answers, response)

(***************************************************************************)
(* Further properties of the vote ledger                                   *)
(***************************************************************************)

\* C11 (as stated): when the first two casts are opposite values by the
\* same user through the same question control, then after the second the
\* user has exactly one ledger row on the question, carrying the new value,
\* and the aggregate, cached and shown by the control, has changed by
\* newType - oldType from its value before the second cast.
C11_OppositeVoteSwingsByTwo ==
  (/\ Len(castLog) = 2
   /\ Quiescent
   /\ castLog[1].session = castLog[2].session
   /\ castLog[1].user = castLog[2].user
   /\ castLog[1].ctl = QCtl /\ castLog[2].ctl = QCtl
   /\ castLog[1].questionId = castLog[2].questionId
   /\ castLog[1].voteType = -castLog[2].voteType
   /\ QCtl \in DOMAIN vb[castLog[1].session])
  => LET q == castLog[1].questionId
         s == castLog[1].session
         mine == {r \in QuestionRows(votes, q) : r.user_id = castLog[1].user}
         swing == castLog[2].voteType - castLog[1].voteType
     IN  /\ Cardinality(mine) = 1
         /\ \A r \in mine : r.vote_type = castLog[2].voteType
         /\ questions[q].vote_count = castLog[1].voteType + swing
         /\ vb[s][QCtl].voteCount = castLog[2].before + swing

\* C12: the ledger holds at most one row per (user, question) and at most
\* one per (user, answer).
C12_OneRowPerUserAndTarget ==
  \A r1, r2 \in votes :
    (/\ r1.user_id = r2.user_id
     /\ \/ r1.question_id # Null /\ r1.question_id = r2.question_id
        \/ r1.answer_id # Null /\ r1.answer_id = r2.answer_id)
    => r1 = r2

\* The same user has cast opposite votes on the same question from two
\* sessions at once: both writes are executed and neither handleVote has
\* finished.
C12_Witness ==
  /\ \A s \in VoteSessions :
       /\ QCtl \in DOMAIN voteOps[s]
       /\ voteOps[s][QCtl].pc = "written"
       /\ voteOps[s][QCtl].user = "u1"
       /\ voteOps[s][QCtl].questionId = "q1"
  /\ voteOps["s1"][QCtl].voteType # voteOps["s2"][QCtl].voteType
  /\ Len(castLog) = 2

\* C13: a step that changes the ledger is the write of a handleVote
\* invocation of a signed-in session, and every row it adds or removes has
\* the user_id of that session's authenticated user.
C13_OnlyOwnRows ==
  [][votes' # votes =>
       \E s \in Sessions :
         /\ authUser[s] # Null
         /\ \E c \in DOMAIN voteOps[s] :
              /\ voteOps[s][c].pc = "getUser"
              /\ c \in DOMAIN voteOps'[s]
              /\ voteOps'[s][c].pc = "written"
         /\ \A r \in (votes' \ votes) \cup (votes \ votes') :
              r.user_id = authUser[s]]_vars

\* u1 has cast votes and has deleted the own row again (toggle-off); the
\* earlier vote of u2 on the same question is still in the ledger.
C13_Witness ==
  /\ castLog # <<>>
  /\ Quiescent
  /\ \A i \in 1..Len(castLog) : castLog[i].user = "u1"
  /\ EarlierVote \in votes
  /\ ~\E r \in votes : r.user_id = "u1"

\* C14: an accept_answer call that fails a precondition changes no table
\* and, when it is answered, is answered false, not with an error; on
\* false the client shows the not-permitted notice and starts no refetch;
\* on a remote error it shows the generic failure notice and starts no
\* refetch.
C14_RefusalIsFalseAndQuiet ==
  [][response'.received =>
       /\ ~(/\ byAuthor(questions, response')
            /\ notYetAccepted(questions, response')
            /\ ownAnswer(answers, response'))
          => /\ UNCHANGED dbVars
             /\ ~response'.data
             /\ ~response'.error => \E s \in Sessions :
                                      toast' = Notice(s, NotPermittedText)
       /\ (~response'.data /\ ~response'.error)
          => /\ \E s \in Sessions : toast' = Notice(s, NotPermittedText)
             /\ UNCHANGED <<fetchQ, fetchA, question, answersView, loading>>
       /\ response'.error
          => /\ \E s \in Sessions : toast' = Notice(s, AcceptFailedText)
             /\ UNCHANGED <<dbVars, fetchQ, fetchA, question, answersView, loading>>]_vars

\* A call that failed a precondition has just been answered false: the
\* not-permitted notice is up and no refetch is in flight.
C14_Witness ==
  /\ response.received /\ ~response.data /\ ~response.error
  /\ ~(/\ byAuthor(questions, response)
       /\ notYetAccepted(questions, response)
       /\ ownAnswer(answers, response))
  /\ \E s \in Sessions :
       /\ toast = Notice(s, NotPermittedText)
       /\ fetchQ[s] = Null /\ fetchA[s] = Null

(***************************************************************************)
(* Properties of posting answers and of the counters                      *)
(***************************************************************************)

SignInToAnswerText == "Please sign in to post an answer"

AnswerRequiredText == "Answer required"

AnswerPostedText == "Answer posted!"

AnswerFailedText == "Failed to post answer"

\* The answers rows of question q that a step has inserted
insertedAnswers(as, asNext, q) ==
  {a \in DOMAIN asNext \ DOMAIN as : asNext[a].question_id = q}

\* C15: in every step a question's answer_count grows by the number of
\* answers rows inserted for it, one per successful submission; a
\* submission that fails remotely or is rejected locally leaves it
\* unchanged; it never decreases.
C15_AnswerCountFollowsInsertions ==
  [][/\ \A q \in DOMAIN questions :
          /\ questions'[q].answer_count >= questions[q].answer_count
          /\ questions'[q].answer_count - questions[q].answer_count
               = Cardinality(insertedAnswers(answers, answers', q))
     /\ toast'.text = AnswerPostedText
          => \E q \in DOMAIN questions :
               /\ questions'[q].answer_count = questions[q].answer_count + 1
               /\ Cardinality(insertedAnswers(answers, answers', q)) = 1
     /\ toast'.text \in {SignInToAnswerText, AnswerRequiredText, AnswerFailedText}
          => UNCHANGED <<questions, answers>>]_vars

\* Two answers have been posted to one question and a third submission has
\* just failed remotely: the count stands two above the seed's.
C15_Witness ==
  /\ toast.text = AnswerFailedText
  /\ \E q \in DOMAIN questions :
       /\ questions[q].answer_count = SeedQuestions[q].answer_count + 2
       /\ Cardinality(insertedAnswers(SeedAnswers, answers, q)) = 2

\* Content that is empty or consists of whitespace only
isBlank(content) == \A i \in 1..Len(content) : content[i] = " "

loads(s, q) ==
  \/ NavigateWithin(s, q, MaxLoads)
  \/ pageId[s] = q /\ MountWithin(s, MaxLoads)

\* C16: no step decreases a question's view_count; a step in which a
\* session loads question q adds exactly one to q's view_count and nothing
\* to any other, whoever else has loaded q before; no other step changes a
\* view_count.
C16_ViewCountCountsLoads ==
  [][/\ \A q \in DOMAIN questions :
          questions'[q].view_count >= questions[q].view_count
     /\ \A s \in Sessions : \A q \in DOMAIN questions :
          loads(s, q) =>
            /\ questions'[q].view_count = questions[q].view_count + 1
            /\ \A p \in DOMAIN questions \ {q} :
                 questions'[p].view_count = questions[p].view_count
     /\ (\E q \in DOMAIN questions :
           questions'[q].view_count # questions[q].view_count)
          => \E s \in Sessions : \E q \in DOMAIN questions : loads(s, q)]_vars

\* Both sessions have loaded the same question, which one of them has
\* loaded twice: three loads, three views more than the seed's.
C16_Witness ==
  \E q \in VisitedQuestions :
    /\ \A s \in Sessions : pageId[s] = q
    /\ questions[q].view_count = SeedQuestions[q].view_count + MaxLoads
    /\ \A p \in DOMAIN questions \ {q} :
         questions[p].view_count = SeedQuestions[p].view_count

\* C17: the answer list a page shows is ordered: whenever one answer stands
\* before another in the list, the second does not sort strictly before the
\* first by accepted first, then vote_count descending, then created_at
\* ascending, on the values the list shows.
C17_AnswerListOrdered ==
  \A s \in Sessions : \A a, b \in DOMAIN answersView[s] :
    answersView[s][a].index < answersView[s][b].index
      => ~comesBefore(answersView[s][b], created_at(b),
                      answersView[s][a], created_at(a))

(***************************************************************************)
(* Properties of asking a question                                         *)
(***************************************************************************)

tagsOf(q) == {r.tag_id : r \in {x \in question_tags : x.question_id = q}}

\* C20: no step removes a questions row, and a step in which a tag insert
\* answers, with a row or with an error, leaves the questions table as it
\* is; a step in which the questions insert fails changes no table and
\* leaves no tag insert in flight; every question_tags row belongs to an
\* existing question and to an invocation that selected its tag.
C20_NoCompensation ==
  /\ [][/\ \A q \in DOMAIN questions : q \in DOMAIN questions'
        /\ \A s \in Sessions :
             /\ (ask[s].pc = "tags" /\ ask'[s].pending # ask[s].pending)
                => /\ UNCHANGED questions
                   /\ ask[s].questionId \in DOMAIN questions'
             /\ (ask[s].pc = "insert" /\ ask'[s].pc # "tags")
                => /\ UNCHANGED <<questions, question_tags>>
                   /\ ask'[s] = AskIdle
                   /\ toast'.text = AskFailedText]_vars
  /\ [](\A r \in question_tags : r.question_id \in DOMAIN questions)
  /\ [](\A s \in Sessions :
          ask[s].pc = "tags" =>
            /\ ask[s].questionId \in DOMAIN questions
            /\ tagsOf(ask[s].questionId) \subseteq ask[s].tags \ ask[s].pending)

\* Both tag inserts of a posted question have answered and one of them has
\* failed: the question is there with one of its two tags.
C20_Witness ==
  \E s \in Sessions :
    /\ ask[s].pc = "tags"
    /\ ask[s].pending = {}
    /\ Cardinality(ask[s].tags) = 2
    /\ ask[s].questionId \in DOMAIN questions
    /\ Cardinality(tagsOf(ask[s].questionId)) = 1

(***************************************************************************)
(* Properties of the requests the handlers send                            *)
(***************************************************************************)

VoteFailedText == "Failed to record your vote"

\* The ledger write of control c of session s is outstanding
voteRequested(ops, s, c) == c \in DOMAIN ops[s] /\ ops[s][c].pc = "getUser"

\* C21: a remote mutation becomes outstanding only in a step of the user's
\* action (a vote click, an accept click, a submit of the ask form; the
\* tag inserts with the answer of their question insert), every step that
\* executes or fails a mutation takes exactly that request out of flight,
\* and a request once answered is never outstanding again: a vote
\* invocation writes at most once, an accept call is answered once, a
\* submitted answer inserts at most one row, a submitted question inserts
\* at most one row and at most one link per selected tag, and after a
\* failure nothing is outstanding for the failed action.
C21_NoAutomaticRetry ==
  [][\A s \in Sessions :
       /\ \A c \in Controls(s) \cup DOMAIN voteOps'[s] :
            (voteRequested(voteOps', s, c) /\ ~voteRequested(voteOps, s, c))
              => \E voteType \in {1, -1} : HandleVoteStart(s, c, voteType)
       /\ (votes' # votes \/ castLog' # castLog)
            => /\ Len(castLog') = Len(castLog) + 1
               /\ \E c \in DOMAIN voteOps[s] :
                    /\ voteRequested(voteOps, s, c)
                    /\ ~voteRequested(voteOps', s, c)
       /\ toast' = Notice(s, VoteFailedText)
            => /\ UNCHANGED <<dbVars, castLog>>
               /\ \E c \in DOMAIN voteOps[s] :
                    /\ voteRequested(voteOps, s, c)
                    /\ c \notin DOMAIN voteOps'[s]
       /\ Len(acceptOps'[s]) > Len(acceptOps[s])
            => /\ Len(acceptOps'[s]) = Len(acceptOps[s]) + 1
               /\ \E c \in Controls(s) : HandleAcceptStart(s, c)
       /\ response'.received
            => Len(acceptOps'[s]) = Len(acceptOps[s]) - 1
       /\ (\E q \in DOMAIN questions :
             questions'[q].accepted_answer_id # questions[q].accepted_answer_id)
            => response'.received /\ response'.data
       /\ DOMAIN answers' # DOMAIN answers
            => /\ Cardinality(DOMAIN answers' \ DOMAIN answers) = 1
               /\ DOMAIN answers \subseteq DOMAIN answers'
               /\ \E content \in AnswerInputs : HandleSubmitAnswer(s, content)
       /\ toast' = Notice(s, AnswerFailedText) => UNCHANGED dbVars
       /\ (ask'[s].pc = "insert" /\ ask[s].pc # "insert")
            => \E title \in TextInputs, content \in TextInputs,
                  tags \in TagInputs : AskSubmit(s, title, content, tags)
       /\ DOMAIN questions' # DOMAIN questions
            => /\ Cardinality(DOMAIN questions' \ DOMAIN questions) = 1
               /\ ask[s].pc = "insert" /\ ask'[s].pc = "tags"
               /\ ask'[s].pending = ask[s].tags
       /\ (ask[s].pc = "tags" /\ ask'[s].pc = "tags")
            => /\ ask'[s].pending \subseteq ask[s].pending
               /\ Cardinality(ask[s].pending \ ask'[s].pending) = 1
       /\ question_tags' # question_tags
            => /\ ask[s].pc = "tags"
               /\ \E t \in ask[s].pending :
                    /\ ask'[s].pending = ask[s].pending \ {t}
                    /\ question_tags' = question_tags \cup
                         {[question_id |-> ask[s].questionId, tag_id |-> t]}
       /\ toast' = Notice(s, AskFailedText)
            => /\ UNCHANGED <<dbVars, question_tags>>
               /\ ask'[s] = AskIdle]_vars

\* After a vote that was written and an accept that succeeded, a later
\* vote has just failed remotely: nothing is outstanding and the ledger has
\* the one row.
C21_Witness ==
  \E s \in Sessions :
    /\ toast = Notice(s, VoteFailedText)
    /\ DOMAIN voteOps[s] = {}
    /\ acceptOps[s] = <<>>
    /\ Len(castLog) = 1
    /\ Cardinality(votes) = 1
    /\ \E q \in DOMAIN questions \ DOMAIN SeedQuestions :
         questions[q].accepted_answer_id # Null

(***************************************************************************)
(* Properties of the profile                                               *)
(***************************************************************************)

\* C22: no step changes the reputation of any profile, whichever handler
\* it belongs to; a step that changes the profiles table is the answer of
\* the handleSaveProfile update of a session, and it changes nothing but
\* display_name and bio of the row of the user signed in to that session.
C22_ReputationUntouched ==
  [][/\ DOMAIN profiles' = DOMAIN profiles
     /\ \A u \in DOMAIN profiles :
          /\ profiles'[u].reputation = profiles[u].reputation
          /\ profiles'[u].username = profiles[u].username
     /\ profiles' # profiles
          => \E s \in Sessions :
               /\ profilePage[s].pc = "saving"
               /\ profilePage'[s].pc = "idle"
               /\ authUser[s] # Null
               /\ \A u \in DOMAIN profiles \ {authUser[s]} :
                    profiles'[u] = profiles[u]
               /\ profiles'[authUser[s]] =
                    [profiles[authUser[s]] EXCEPT
                       !.display_name = profilePage[s].request.display_name,
                       !.bio = profilePage[s].request.bio]]_vars

\* u1 has voted, accepted an answer and posted an answer, and has then
\* saved a new display name and bio: the reputation is the seed's.
C22_Witness ==
  /\ votes # {}
  /\ \E q \in DOMAIN questions \ DOMAIN SeedQuestions :
       questions[q].accepted_answer_id # Null
  /\ DOMAIN answers \cap NewAnswerIds # {}
  /\ \E s \in Sessions : toast = Notice(s, ProfileSavedText)
  /\ profiles["u1"].display_name # SeedProfiles["u1"].display_name
  /\ profiles["u1"].bio # SeedProfiles["u1"].bio
  /\ profiles["u1"].reputation = SeedProfiles["u1"].reputation

\* ------------------------------------------------------------------------
\* TagInput (src/src/components/TagInput.tsx), rendered by AskQuestion with
\* selectedTags and setSelectedTags as its props
\* ------------------------------------------------------------------------

\* String.prototype.toLowerCase and the database's case folding, on the
\* letters the tag names of the model are written with
lowerChar(c) ==
  CASE c = "C" -> "c"
    [] c = "G" -> "g"
    [] c = "J" -> "j"
    [] c = "R" -> "r"
    [] c = "S" -> "s"
    [] OTHER -> c

toLowerCase(str) == [i \in 1..Len(str) |-> lowerChar(str[i])]

\* .ilike('name', tagName): the pattern holds neither % nor _, so it matches
\* the names equal to it ignoring case
ilike(name, pattern) == toLowerCase(name) = toLowerCase(pattern)

\* .ilike('name', `%${query}%`): the names that contain the query ignoring
\* case
ilikeContains(name, query) ==
  \E i \in 0..(Len(name) - Len(query)) :
    SubSeq(toLowerCase(name), i + 1, i + Len(query)) = toLowerCase(query)

\* data of a request that found no row, or failed
noTag == [id |-> Null, name |-> <<>>]

\* .single(): the row when exactly one row matches; otherwise data is null
single(rows) ==
  IF Cardinality(rows) = 1 THEN CHOOSE r \in rows : TRUE ELSE noTag

\* The id the database gives an inserted tags row
NewTagId(i) == "t" \o ToString(i)

NewTagIds == {NewTagId(i) : i \in 1..MaxNewTags}

nextTagId ==
  NewTagId(Cardinality({t \in tagsTable : t.id \in NewTagIds}) + 1)

\* Names the user types into the input
Rust == <<"R", "u", "s", "t">>

rust == <<"r", "u", "s", "t">>

Go == <<"G", "o">>

\* selectedTags.some(tag => tag.name.toLowerCase() === tagName.toLowerCase())
isSelected(selectedTags, tagName) ==
  \E i \in 1..Len(selectedTags) :
    toLowerCase(selectedTags[i].name) = toLowerCase(tagName)

\* The ids of the selected tags
selectedIds(selectedTags) ==
  {selectedTags[i].id : i \in 1..Len(selectedTags)}

\* Every step of the TagInput leaves the rest of the program alone
TagInputOnly ==
  /\ toast' = NoToast
  /\ response' = NoResponse
  /\ UNCHANGED <<dbVars, authUser, pageUser, pageId, question, answersView,
                 loading, fetchQ, fetchA, vb, voteOps, acceptOps, castLog,
                 askVars, profiles, profilePage>>

\* Enter in the input and the plus button call addTag(inputValue.trim()).
\* addTag(tagName) up to its first await: it returns on a blank name and on
\* a name that is selected already; otherwise the lookup is sent.  The
\* invocation keeps the selectedTags of the render that created it.  At most
\* `limit` invocations of a TagInput are in progress.
AddTagWithin(s, tagName, limit) ==
  /\ ask[s].pc # "closed"
  /\ Len(tagInput[s].ops) < limit
  /\ IF trim(tagName) = <<>> \/ isSelected(tagInput[s].selectedTags, tagName)
     THEN UNCHANGED tagInput
     ELSE tagInput' = [tagInput EXCEPT
            ![s].ops = Append(@, [pc |-> "lookup", tagName |-> tagName,
                                  selectedTags |-> tagInput[s].selectedTags])]
  /\ UNCHANGED tagsTable
  /\ TagInputOnly

\* The lookup answers (ok) or fails.  A row found is appended to the
\* invocation's selectedTags and handed to onTagsChange; with no data the
\* insert is sent.
AddTagLookupDone(s, i, ok) ==
  /\ i \in 1..Len(tagInput[s].ops)
  /\ tagInput[s].ops[i].pc = "lookup"
  /\ LET op == tagInput[s].ops[i]
         existingTag ==
           IF ok THEN single({t \in tagsTable : ilike(t.name, op.tagName)})
                 ELSE noTag
     IN  IF existingTag # noTag
         THEN tagInput' = [tagInput EXCEPT
                ![s].selectedTags = Append(op.selectedTags, existingTag),
                ![s].ops = RemoveAt(@, i)]
         ELSE tagInput' = [tagInput EXCEPT ![s].ops[i].pc = "insert"]
  /\ UNCHANGED tagsTable
  /\ TagInputOnly

\* The insert answers with the new row (ok), which is appended to the
\* invocation's selectedTags and handed to onTagsChange, or it fails and
\* addTag selects nothing.
AddTagInsertDone(s, i, ok) ==
  /\ i \in 1..Len(tagInput[s].ops)
  /\ tagInput[s].ops[i].pc = "insert"
  /\ LET op == tagInput[s].ops[i]
         newTag == [id |-> nextTagId, name |-> op.tagName]
     IN  IF ok
         THEN /\ Cardinality({t \in tagsTable : t.id \in NewTagIds}) < MaxNewTags
              /\ tagsTable' = tagsTable \cup {newTag}
              /\ tagInput' = [tagInput EXCEPT
                   ![s].selectedTags = Append(op.selectedTags, newTag),
                   ![s].ops = RemoveAt(@, i)]
         ELSE /\ UNCHANGED tagsTable
              /\ tagInput' = [tagInput EXCEPT ![s].ops = RemoveAt(@, i)]
  /\ TagInputOnly

\* A click on a suggestion.  The suggestions are rows whose name contains
\* the typed text and which were not selected when they were fetched;
\* usage_count, which ranks them, is not modelled, so each such row can be
\* among the five shown.
SuggestionClick(s, inputValue, tag) ==
  /\ ask[s].pc # "closed"
  /\ Len(inputValue) > 0
  /\ tag \in tagsTable
  /\ ilikeContains(tag.name, inputValue)
  /\ tag.id \notin selectedIds(tagInput[s].selectedTags)
  /\ tagInput' = [tagInput EXCEPT ![s].selectedTags = Append(@, tag)]
  /\ UNCHANGED tagsTable
  /\ TagInputOnly

\* removeTag(tagId): the X of a selected tag, or Backspace in the empty input
\* for the last one
RemoveTag(s, tagId) ==
  /\ ask[s].pc # "closed"
  /\ tagId \in selectedIds(tagInput[s].selectedTags)
  /\ LET keep(tag) == tag.id # tagId
     IN  tagInput' = [tagInput EXCEPT
           ![s].selectedTags = SelectSeq(@, keep)]
  /\ UNCHANGED tagsTable
  /\ TagInputOnly

\* AskQuestion is open in the sessions S on the demo seed
AskQuestionMounted(S) ==
  /\ questions = SeedQuestions
  /\ answers = SeedAnswers
  /\ votes = {}
  /\ question_tags = SeedQuestionTags
  /\ pageUser = authUser
  /\ pageId = [s \in S |-> Null]
  /\ question = [s \in S |-> noQuestion]
  /\ answersView = [s \in S |-> [a \in {} |-> Null]]
  /\ loading = [s \in S |-> TRUE]
  /\ fetchQ = [s \in S |-> Null]
  /\ fetchA = [s \in S |-> Null]
  /\ vb = [s \in S |-> [c \in {} |-> Null]]
  /\ voteOps = [s \in S |-> [c \in {} |-> Null]]
  /\ acceptOps = [s \in S |-> <<>>]
  /\ toast = NoToast
  /\ response = NoResponse
  /\ castLog = <<>>
  /\ ask = [s \in S |-> AskIdle]

\* ... with nothing typed and no tag selected; the tags are the seed's.
TagInputMounted(S) ==
  /\ AskQuestionMounted(S)
  /\ OtherPagesClosed(S)

\* Two clients tag their questions: u1 and u2 have AskQuestion open and type
\* the name of a tag that does not exist yet, in either spelling.
TagNameInputs == {Rust, rust}

InitTags ==
  /\ authUser = [s \in VoteSessions |-> IF s = "s1" THEN "u1" ELSE "u2"]
  /\ TagInputMounted(VoteSessions)

NextTags ==
  \/ \E s \in VoteSessions : \E inputValue \in TagNameInputs :
       AddTagWithin(s, trim(inputValue), 1)
  \/ \E s \in VoteSessions : \E i \in 1..MaxAddsInFlight, ok \in BOOLEAN :
       AddTagLookupDone(s, i, ok)
  \/ \E s \in VoteSessions : \E i \in 1..MaxAddsInFlight, ok \in BOOLEAN :
       AddTagInsertDone(s, i, ok)
  \/ \E s \in VoteSessions : \E inputValue \in TagNameInputs :
       \E tag \in tagsTable : SuggestionClick(s, inputValue, tag)
  \/ \E s \in VoteSessions :
       \E tagId \in selectedIds(tagInput[s].selectedTags) : RemoveTag(s, tagId)

SpecTags == InitTags /\ [][NextTags]_vars

\* One client and its TagInput: the user types names of new tags and of the
\* seeded tag CSS and presses Enter, also while an earlier addTag is still
\* waiting; the selection changes through addTag only.
NextTagInput ==
  \/ \E s \in PageSessions :
       \E inputValue \in {<<>>, <<" ", "G", "o">>, Rust, <<"c", "s", "s">>} :
         AddTagWithin(s, trim(inputValue), MaxAddsInFlight)
  \/ \E s \in PageSessions : \E i \in 1..MaxAddsInFlight, ok \in BOOLEAN :
       AddTagLookupDone(s, i, ok)
  \/ \E s \in PageSessions : \E i \in 1..MaxAddsInFlight, ok \in BOOLEAN :
       AddTagInsertDone(s, i, ok)

InitTagInput ==
  /\ authUser = [s \in PageSessions |-> "u1"]
  /\ TagInputMounted(PageSessions)

SpecTagInput == InitTagInput /\ [][NextTagInput]_vars

\* Many tags: besides the seeded tags, Go and SQL were created by earlier
\* questions.  One client selects tags from the suggestions for a typed
\* letter and by typing the names go and Rust, and waits for an addTag to
\* finish before the next click; the lookups are answered.
InitTagLimit ==
  /\ authUser = [s \in PageSessions |-> "u1"]
  /\ AskQuestionMounted(PageSessions)
  /\ profiles = SeedProfiles
  /\ profilePage = [s \in PageSessions |-> ProfileClosed]
  /\ tagsTable = SeedTags \cup {[id |-> "go", name |-> Go],
                              [id |-> "sql", name |-> <<"S", "Q", "L">>]}
  /\ tagInput = [s \in PageSessions |-> [selectedTags |-> <<>>, ops |-> <<>>]]

NextTagLimit ==
  \/ \E s \in PageSessions : \E inputValue \in {<<"g", "o">>, Rust} :
       AddTagWithin(s, trim(inputValue), 1)
  \/ \E s \in PageSessions : AddTagLookupDone(s, 1, TRUE)
  \/ \E s \in PageSessions : \E ok \in BOOLEAN : AddTagInsertDone(s, 1, ok)
  \/ \E s \in PageSessions : \E inputValue \in {<<"s">>, <<"a">>} :
       \E tag \in tagsTable :
         tagInput[s].ops = <<>> /\ SuggestionClick(s, inputValue, tag)
  \/ \E s \in PageSessions :
       \E tagId \in selectedIds(tagInput[s].selectedTags) :
         tagInput[s].ops = <<>> /\ RemoveTag(s, tagId)

SpecTagLimit == InitTagLimit /\ [][NextTagLimit]_vars

\* ------------------------------------------------------------------------
\* Properties of the tags
\* ------------------------------------------------------------------------

\* C23: no two rows of the tag store have names that are equal ignoring
\* case, and no selection holds two tags whose names are equal ignoring case.
C23_TagNamesUnique ==
  /\ \A t1 \in tagsTable, t2 \in tagsTable :
       toLowerCase(t1.name) = toLowerCase(t2.name) => t1 = t2
  /\ \A s \in Sessions :
       \A i \in 1..Len(tagInput[s].selectedTags),
          j \in 1..Len(tagInput[s].selectedTags) :
         toLowerCase(tagInput[s].selectedTags[i].name)
           = toLowerCase(tagInput[s].selectedTags[j].name) => i = j

\* C24: a TagInput never has more than five tags selected.
C24_AtMostFiveSelected ==
  \A s \in Sessions : Len(tagInput[s].selectedTags) <= 5

\* C30: when an addTag invocation ends, every tag that is selected at that
\* moment under another name (a tag selected before, or the tag of an addTag
\* that overlapped and ended first) is still selected.
C30_OverlappingAddsKeepBoth ==
  [][\A s \in Sessions : \A i \in 1..Len(tagInput[s].ops) :
       /\ Len(tagInput'[s].ops) < Len(tagInput[s].ops)
       /\ tagInput'[s].ops = RemoveAt(tagInput[s].ops, i)
       => \A k \in 1..Len(tagInput[s].selectedTags) :
            toLowerCase(tagInput[s].selectedTags[k].name)
              # toLowerCase(tagInput[s].ops[i].tagName)
            => tagInput[s].selectedTags[k].id
                 \in selectedIds(tagInput'[s].selectedTags)]_vars

\* ------------------------------------------------------------------------
\* Properties of the state of a vote control
\* ------------------------------------------------------------------------

\* The ledger rows of a user on the target of a control: the question for
\* the question's control, the answer for an answer's control
ledgerRows(rows, user, qid, c) ==
  {r \in rows : /\ r.user_id = user
                /\ IF c = QCtl THEN r.question_id = qid ELSE r.answer_id = c}

\* C25: a control with no handleVote invocation in progress shows as
\* currentUserVote the vote_type of the signed-in user's ledger row on the
\* control's target, and no vote when there is no such row.
C25_CurrentUserVoteIsLedgerVote ==
  \A s \in Sessions : \A c \in DOMAIN vb[s] :
    (c \notin DOMAIN voteOps[s] /\ question[s].id # Null)
    => LET mine == ledgerRows(votes, authUser[s], question[s].id, c)
       IN  IF mine = {}
           THEN vb[s][c].currentUserVote = NoVote
           ELSE \E r \in mine : vb[s][c].currentUserVote = r.vote_type

\* C26: voteCount and currentUserVote of a control, and the vote_count the
\* page holds for its target (onVoteChange), change in a step of handleVote
\* only when that step follows a write that returned without error; the click,
\* the refusal of a signed-out user and the failure of the write leave them
\* as they were.  Apart from handleVote only a re-render with a refetched
\* count changes the two values.  An invocation is past its write only if the
\* write was executed.
C26_LocalStateFollowsWrite ==
  /\ [][\A s \in Sessions :
          /\ \A c \in DOMAIN voteOps[s] \cup DOMAIN voteOps'[s] :
               (/\ \/ c \notin DOMAIN voteOps[s]
                   \/ c \notin DOMAIN voteOps'[s]
                   \/ voteOps'[s][c] # voteOps[s][c]
                /\ ~(c \in DOMAIN voteOps[s] /\ voteOps[s][c].pc = "written"))
               => /\ question'[s] = question[s]
                  /\ answersView'[s] = answersView[s]
                  /\ c \in DOMAIN vb[s] =>
                       /\ c \in DOMAIN vb'[s]
                       /\ vb'[s][c].voteCount = vb[s][c].voteCount
                       /\ vb'[s][c].currentUserVote = vb[s][c].currentUserVote
          /\ \A c \in DOMAIN vb[s] \cap DOMAIN vb'[s] :
               (\/ vb'[s][c].voteCount # vb[s][c].voteCount
                \/ vb'[s][c].currentUserVote # vb[s][c].currentUserVote)
               => \/ /\ c \in DOMAIN voteOps[s]
                     /\ voteOps[s][c].pc = "written"
                     /\ c \notin DOMAIN voteOps'[s]
                  \/ /\ fetchQ'[s] # fetchQ[s] \/ fetchA'[s] # fetchA[s]
                     /\ vb'[s][c].voteCount
                          = propCurrentVoteCount(question'[s], answersView'[s], c)]_vars
  /\ [](\A s \in Sessions : \A c \in DOMAIN voteOps[s] :
          voteOps[s][c].pc = "written"
          => \E k \in 1..Len(castLog) :
               /\ castLog[k].session = s
               /\ castLog[k].ctl = c
               /\ castLog[k].voteType = voteOps[s][c].voteType
               /\ castLog[k].before = voteOps[s][c].voteCount)

\* u1's earlier votes were written and moved the question's control and the
\* page to -1; the write of the next click has just failed.
C26_Witness ==
  /\ toast = Notice("s1", VoteFailedText)
  /\ \E k \in 1..Len(castLog) : castLog[k].session = "s1"
  /\ QCtl \in DOMAIN vb["s1"]
  /\ QCtl \notin DOMAIN voteOps["s1"]
  /\ vb["s1"][QCtl].voteCount = -1
  /\ question["s1"].vote_count = -1

\* ------------------------------------------------------------------------
\* Properties of the refetch after an acceptance
\* ------------------------------------------------------------------------

\* C27 as stated: the step in which accept_answer returns true issues the
\* refetch of the answers and of the question, and the refetch asks for the
\* question whose row now holds the new accepted_answer_id and for the
\* answers of that question, among them the row with is_accepted = true.
C27_RefetchShowsAcceptance ==
  [][(response'.received /\ response'.data /\ ~response'.error)
     => \E s \in Sessions :
          LET q == response'.question_id_param
              a == response'.answer_id_param
          IN  /\ toast' = Notice(s, AcceptedText)
              /\ fetchQ'[s] = q
              /\ fetchA'[s] = q
              /\ questions'[q].accepted_answer_id = a
              /\ answers'[a].is_accepted
              /\ answers'[a].question_id = q]_vars

\* C27, amended: the refetch of the answers and of the question is issued in
\* the step in which accept_answer returns true, and in no other step of
\* handleAccept; at that moment the question's row holds the new
\* accepted_answer_id and the answer's row is_accepted = true.  The refetch
\* asks for the question of the route at the time of the click.  Both
\* columns keep their values, and a fetch that returns data puts the row's
\* values on the page: when the route was the accepted question's, the
\* refetched question and answer show the acceptance.
C27_RefetchAfterCommit ==
  [][/\ (response'.received /\ response'.data /\ ~response'.error)
        => \E s \in Sessions : \E i \in 1..Len(acceptOps[s]) :
             LET req == acceptOps[s][i]
                 q == response'.question_id_param
                 a == response'.answer_id_param
             IN  /\ req.question_id_param = q /\ req.answer_id_param = a
                 /\ Len(acceptOps'[s]) = Len(acceptOps[s]) - 1
                 /\ toast' = Notice(s, AcceptedText)
                 /\ fetchQ'[s] = req.id
                 /\ fetchA'[s] = req.id
                 /\ questions'[q].accepted_answer_id = a
                 /\ answers'[a].is_accepted
                 /\ answers'[a].question_id = q
     /\ (response'.received /\ ~(response'.data /\ ~response'.error))
        => UNCHANGED <<fetchQ, fetchA>>
     /\ \A s \in Sessions :
          Len(acceptOps'[s]) > Len(acceptOps[s]) => UNCHANGED <<fetchQ, fetchA>>
     /\ \A q \in DOMAIN questions :
          questions[q].accepted_answer_id # Null
          => questions'[q].accepted_answer_id = questions[q].accepted_answer_id
     /\ \A a \in DOMAIN answers :
          answers[a].is_accepted => answers'[a].is_accepted
     /\ \A s \in Sessions :
          (/\ fetchQ[s] # Null /\ fetchQ'[s] = Null
           /\ toast' # Notice(s, "Failed to load question"))
          => question'[s].accepted_answer_id
               = questions[fetchQ[s]].accepted_answer_id
     /\ \A s \in Sessions :
          (/\ fetchA[s] # Null /\ fetchA'[s] = Null
           /\ answersView'[s] # answersView[s])
          => \A a \in DOMAIN answers :
               answers[a].question_id = fetchA[s]
               => /\ a \in DOMAIN answersView'[s]
                  /\ answersView'[s][a].is_accepted = answers[a].is_accepted]_vars

\* The refetch issued by a successful accept has been answered: the page
\* shows the question with the accepted answer's id and that answer as
\* accepted, and the seed did not hold this acceptance.
C27_Witness ==
  \E s \in Sessions : \E a \in DOMAIN answersView[s] :
    /\ fetchQ[s] = Null /\ fetchA[s] = Null
    /\ question[s].accepted_answer_id = a
    /\ answersView[s][a].is_accepted
    /\ question[s].id \in DOMAIN SeedQuestions
    /\ SeedQuestions[question[s].id].accepted_answer_id = Null
    /\ questions[question[s].id].accepted_answer_id = a

\* C28: isVoting of a mounted control is true exactly when a handleVote
\* invocation of that control is in progress.  The buttons are enabled only
\* while isVoting is false, so a click never meets an invocation of its
\* control in progress, and every end of an invocation (the write's success,
\* the refusal of a signed-out user, the write's failure) leaves isVoting
\* false.
C28_IsVotingWhileInProgress ==
  \A s \in Sessions : \A c \in DOMAIN vb[s] :
    vb[s][c].isVoting <=> c \in DOMAIN voteOps[s]

\* s1 has finished two invocations and a third one is past its write: s1's
\* control is voting; the control of the signed-out s2 is not.
C28_Witness ==
  /\ Len(castLog) = 3
  /\ \A k \in 1..3 : castLog[k].session = "s1"
  /\ QCtl \in DOMAIN voteOps["s1"]
  /\ voteOps["s1"][QCtl].pc = "written"
  /\ vb["s1"][QCtl].isVoting
  /\ authUser["s2"] = Null
  /\ QCtl \in DOMAIN vb["s2"]
  /\ ~vb["s2"][QCtl].isVoting
  /\ DOMAIN voteOps["s2"] = {}

\* ------------------------------------------------------------------------
\* Properties of the accept button
\* ------------------------------------------------------------------------

\* C29: a step that puts an accept_answer call in flight sends the id of an
\* answer the page shows and the id of the question the page shows, and in
\* the page's state the user read by checkAuth is that question's author,
\* the question has no accepted answer and the answer is not marked
\* accepted.
C29_AcceptOnlyWhenEnabled ==
  [][\A s \in Sessions :
       Len(acceptOps'[s]) > Len(acceptOps[s])
       => LET req == acceptOps'[s][Len(acceptOps'[s])]
              a == req.answer_id_param
          IN  /\ Len(acceptOps'[s]) = Len(acceptOps[s]) + 1
              /\ a # Null
              /\ a \in DOMAIN answersView[s]
              /\ ~loading[s]
              /\ req.question_id_param = question[s].id
              /\ question[s].id # Null
              /\ pageUser[s] # Null
              /\ pageUser[s] = question[s].user_id
              /\ question[s].accepted_answer_id = Null
              /\ ~answersView[s][a].is_accepted]_vars

\* Two accept calls of the author are in flight, for different answers of
\* the question the page shows.
C29_Witness ==
  \E s \in Sessions :
    /\ Len(acceptOps[s]) = 2
    /\ acceptOps[s][1].answer_id_param # acceptOps[s][2].answer_id_param
    /\ \A i \in 1..2 :
         /\ acceptOps[s][i].question_id_param = question[s].id
         /\ acceptOps[s][i].requester = question[s].user_id

====
